---------------------------- MODULE Spec2Model ----------------------------
(***************************************************************************)
(* Verification model of the ponder indexing engine: the checkpoint        *)
(* algebra, the Sync Gateway (cross-chain checkpoint reducer) and the      *)
(* Indexing Scheduler (IndexingService).                                   *)
(*                                                                         *)
(* Two specifications share the module:                                    *)
(*   GatewaySpec  the Sync Gateway driven by the listeners that the Ponder *)
(*                class registers on the sync services;                    *)
(*   Spec         the IndexingService, one action per segment of code      *)
(*                between two awaits of its async methods.                 *)
(***************************************************************************)
EXTENDS Integers, Sequences, FiniteSets, Bags, TLC

VARIABLES
    gateway,    \* the SyncGateway object: per-chain and global checkpoints
    gwHist,     \* history of the gateway's emissions (observation only)
    tableAccess,            \* build artifact: tables each key reads and writes
    functionMetadata,       \* database.functionMetadata: persisted toCheckpoint per key
    isPaused,               \* IndexingService.isPaused
    indexingFunctionStates, \* IndexingService.indexingFunctionStates
    queue,                  \* IndexingService.queue: defined, started, pending tasks
    workers,                \* tasks the worker pool is executing, by slot
    loadingMutex,           \* IndexingService.loadingMutex: holder and waiters
    loads,                  \* getEvents calls in flight (of the mutex holder)
    pe,                     \* processEvents invocations in progress
    reorg,                  \* handleReorg invocation in progress
    resetPc,                \* reset invocation in progress
    hist,                   \* history of the scheduler (observation only)
    isSetupStarted,         \* IndexingService.isSetupStarted
    setupFunctionStates,    \* IndexingService.setupFunctionStates
    flushInterval,          \* the periodic flush callback in progress
    syncStore,              \* the sync store's tables
    storeOp                 \* the sync store operation in progress

(***************************************************************************)
(* Checkpoint algebra (utils/checkpoint): records ordered                  *)
(* lexicographically by (blockTimestamp, chainId, blockNumber, logIndex).  *)
(***************************************************************************)
Cp(t, c, b, l) ==
    [blockTimestamp |-> t, chainId |-> c, blockNumber |-> b, logIndex |-> l]

zeroCheckpoint == Cp(0, 0, 0, 0)

isCheckpointEqual(a, b) ==
    /\ a.blockTimestamp = b.blockTimestamp
    /\ a.chainId = b.chainId
    /\ a.blockNumber = b.blockNumber
    /\ a.logIndex = b.logIndex

isCheckpointGreaterThan(a, b) ==
    \/ a.blockTimestamp > b.blockTimestamp
    \/ /\ a.blockTimestamp = b.blockTimestamp
       /\ \/ a.chainId > b.chainId
          \/ /\ a.chainId = b.chainId
             /\ \/ a.blockNumber > b.blockNumber
                \/ /\ a.blockNumber = b.blockNumber
                   /\ a.logIndex > b.logIndex

isCheckpointGreaterThanOrEqualTo(a, b) ==
    isCheckpointGreaterThan(a, b) \/ isCheckpointEqual(a, b)

checkpointMax(a, b) == IF isCheckpointGreaterThan(b, a) THEN b ELSE a

\* checkpointMin(...checkpoints) over the non-empty set of its arguments
checkpointMin(S) ==
    CHOOSE c \in S : \A d \in S : ~isCheckpointGreaterThan(c, d)

(***************************************************************************)
(* Sync Gateway.                                                           *)
(***************************************************************************)
\* the two networks of the gateway's test fixture: mainnet and optimism
ChainIds == {1, 10}

\* block timestamps the sync services of each chain report
Timestamps(chainId) == IF chainId = 1 THEN {10, 15} ELSE {10, 12}

\* createCheckpoint({chainId, blockTimestamp}) of the gateway tests
createCheckpoint(c, t) == Cp(t, c, 0, 0)

GatewayCheckpoints ==
    UNION {{createCheckpoint(c, t) : t \in Timestamps(c)} : c \in ChainIds}

\* safe checkpoints the realtime services report with a shallow reorg
ReorgCheckpoints == {c \in GatewayCheckpoints : c.blockTimestamp = 10}

NoEmit == [event |-> "none", payload |-> zeroCheckpoint]

NewNetworkCheckpoints ==
    [isHistoricalSyncComplete |-> FALSE,
     historicalCheckpoint |-> zeroCheckpoint,
     realtimeCheckpoint |-> zeroCheckpoint,
     finalityCheckpoint |-> zeroCheckpoint]

\* new SyncGateway({networks})
NewGateway ==
    [networkCheckpoints |-> [c \in ChainIds |-> NewNetworkCheckpoints],
     checkpoint |-> zeroCheckpoint,
     finalityCheckpoint |-> zeroCheckpoint,
     isHistoricalSyncComplete |-> FALSE,
     emitted |-> NoEmit]

\* perChainBest[i] of the reducer
perChainBest(n) ==
    IF n.isHistoricalSyncComplete
    THEN checkpointMax(n.historicalCheckpoint, n.realtimeCheckpoint)
    ELSE n.historicalCheckpoint

\* a reducer that takes the most advanced chain instead of the least
recalculateCheckpointMaxChain(g) ==
    LET best == {perChainBest(g.networkCheckpoints[c]) : c \in ChainIds}
        new == CHOOSE c \in best : \A d \in best : ~isCheckpointGreaterThan(d, c)
    IN  IF isCheckpointGreaterThan(new, g.checkpoint)
        THEN [g EXCEPT !.checkpoint = new,
                       !.emitted = [event |-> "newCheckpoint", payload |-> new]]
        ELSE g

\* a reducer that emits whenever the value is not lower than the previous one
recalculateCheckpointNotStrict(g) ==
    LET new == checkpointMin({perChainBest(g.networkCheckpoints[c]) : c \in ChainIds})
    IN  IF isCheckpointGreaterThanOrEqualTo(new, g.checkpoint)
           /\ ~isCheckpointEqual(new, zeroCheckpoint)
        THEN [g EXCEPT !.checkpoint = new,
                       !.emitted = [event |-> "newCheckpoint", payload |-> new]]
        ELSE g

\* global checkpoint reducer: emit only if strictly greater than the previous
recalculateCheckpoint(g) ==
    LET new == checkpointMin({perChainBest(g.networkCheckpoints[c]) : c \in ChainIds})
    IN  IF isCheckpointGreaterThan(new, g.checkpoint)
        THEN [g EXCEPT !.checkpoint = new,
                       !.emitted = [event |-> "newCheckpoint", payload |-> new]]
        ELSE g

\* a finality reducer that emits on every call that leaves the minimum non-zero
recalculateFinalityCheckpointAlways(g) ==
    LET new == checkpointMin({g.networkCheckpoints[c].finalityCheckpoint : c \in ChainIds})
    IN  IF ~isCheckpointEqual(new, zeroCheckpoint)
        THEN [g EXCEPT !.finalityCheckpoint = new,
                       !.emitted = [event |-> "newFinalityCheckpoint", payload |-> new]]
        ELSE g

recalculateFinalityCheckpoint(g) ==
    LET new == checkpointMin({g.networkCheckpoints[c].finalityCheckpoint : c \in ChainIds})
    IN  IF isCheckpointGreaterThan(new, g.finalityCheckpoint)
        THEN [g EXCEPT !.finalityCheckpoint = new,
                       !.emitted = [event |-> "newFinalityCheckpoint", payload |-> new]]
        ELSE g

\* every handler starts with nothing emitted
Quiet(g) == [g EXCEPT !.emitted = NoEmit]

handleNewHistoricalCheckpoint(g, c) ==
    LET n == g.networkCheckpoints[c.chainId]
        g1 == IF isCheckpointGreaterThan(c, n.historicalCheckpoint)
              THEN [Quiet(g) EXCEPT
                      !.networkCheckpoints[c.chainId].historicalCheckpoint = c]
              ELSE Quiet(g)
    IN  recalculateCheckpoint(g1)

handleHistoricalSyncComplete(g, chainId) ==
    LET g1 == [Quiet(g) EXCEPT
                 !.networkCheckpoints[chainId].isHistoricalSyncComplete = TRUE]
        g2 == recalculateCheckpoint(g1)
    IN  [g2 EXCEPT !.isHistoricalSyncComplete =
            \A c \in ChainIds : g2.networkCheckpoints[c].isHistoricalSyncComplete]

handleNewRealtimeCheckpoint(g, c) ==
    LET n == g.networkCheckpoints[c.chainId]
        g1 == IF isCheckpointGreaterThan(c, n.realtimeCheckpoint)
              THEN [Quiet(g) EXCEPT
                      !.networkCheckpoints[c.chainId].realtimeCheckpoint = c]
              ELSE Quiet(g)
    IN  recalculateCheckpoint(g1)

handleNewFinalityCheckpoint(g, c) ==
    LET n == g.networkCheckpoints[c.chainId]
        g1 == IF isCheckpointGreaterThan(c, n.finalityCheckpoint)
              THEN [Quiet(g) EXCEPT
                      !.networkCheckpoints[c.chainId].finalityCheckpoint = c]
              ELSE Quiet(g)
    IN  recalculateFinalityCheckpoint(g1)

gatewayHandleReorg(g, c) ==
    [g EXCEPT !.emitted = [event |-> "reorg", payload |-> c]]

resetCheckpoints(g, chainId) ==
    [Quiet(g) EXCEPT !.networkCheckpoints[chainId] = NewNetworkCheckpoints,
                     !.checkpoint = zeroCheckpoint,
                     !.finalityCheckpoint = zeroCheckpoint,
                     !.isHistoricalSyncComplete = FALSE]

(***************************************************************************)
(* Observation of the gateway: which handler ran last, the two most recent *)
(* newCheckpoint payloads (zeroCheckpoint: none yet), whether a            *)
(* resetCheckpoints call separates them, and the progress of the scripted  *)
(* call sequence of the "two-chain minimum" scenario.                      *)
(***************************************************************************)
TwoChainScript ==
    << createCheckpoint(1, 10), createCheckpoint(10, 12), createCheckpoint(1, 15) >>

NewGwHist ==
    [op |-> "new", chainId |-> 0,
     prev |-> zeroCheckpoint, last |-> zeroCheckpoint,
     resetBetween |-> FALSE, resetSinceLast |-> FALSE,
     script |-> 0, scriptEmits |-> << >>]

Observe(h, op, chainId, arg, g2) ==
    LET isNew == g2.emitted.event = "newCheckpoint"
        onScript == /\ op = "historical"
                    /\ h.script \in 0..(Len(TwoChainScript) - 1)
                    /\ arg = TwoChainScript[h.script + 1]
    IN  [op |-> op, chainId |-> chainId,
         prev |-> IF isNew THEN h.last ELSE h.prev,
         last |-> IF isNew THEN g2.emitted.payload ELSE h.last,
         resetBetween |-> IF isNew THEN h.resetSinceLast ELSE h.resetBetween,
         resetSinceLast |-> IF isNew THEN FALSE
                            ELSE (h.resetSinceLast \/ op = "reset"),
         script |-> IF onScript THEN h.script + 1 ELSE -1,
         scriptEmits |-> IF ~onScript THEN << >>
                         ELSE IF isNew THEN Append(h.scriptEmits, g2.emitted.payload)
                         ELSE h.scriptEmits]

(***************************************************************************)
(* The listeners Ponder.registerCoreServiceEventListeners attaches to the  *)
(* sync services: each forwards one sync-service event to the gateway.     *)
(***************************************************************************)
\* a listener wired to the wrong slot
OnRealtimeCheckpointAsHistorical(c) ==
    /\ gateway' = handleNewHistoricalCheckpoint(gateway, c)
    /\ gwHist' = Observe(gwHist, "realtime", c.chainId, c, gateway')

\* a listener wired to the realtime slot instead of the historical one
OnHistoricalCheckpointAsRealtime(c) ==
    /\ gateway' = handleNewRealtimeCheckpoint(gateway, c)
    /\ gwHist' = Observe(gwHist, "historical", c.chainId, c, gateway')

OnHistoricalCheckpoint(c) ==
    /\ gateway' = handleNewHistoricalCheckpoint(gateway, c)
    /\ gwHist' = Observe(gwHist, "historical", c.chainId, c, gateway')

OnSyncComplete(chainId) ==
    /\ gateway' = handleHistoricalSyncComplete(gateway, chainId)
    /\ gwHist' = Observe(gwHist, "complete", chainId, zeroCheckpoint, gateway')

OnRealtimeCheckpoint(c) ==
    /\ gateway' = handleNewRealtimeCheckpoint(gateway, c)
    /\ gwHist' = Observe(gwHist, "realtime", c.chainId, c, gateway')

OnFinalityCheckpoint(c) ==
    /\ gateway' = handleNewFinalityCheckpoint(gateway, c)
    /\ gwHist' = Observe(gwHist, "finality", c.chainId, c, gateway')

OnShallowReorg(c) ==
    /\ gateway' = gatewayHandleReorg(gateway, c)
    /\ gwHist' = Observe(gwHist, "reorg", c.chainId, c, gateway')

\* an admin reload that resets another chain than the one asked for
OnAdminReloadWrongChain(chainId) ==
    IF chainId \in ChainIds
    THEN /\ gateway' = resetCheckpoints(gateway, CHOOSE c \in ChainIds : c # chainId)
         /\ gwHist' = Observe(gwHist, "reset", chainId, zeroCheckpoint, gateway')
    ELSE UNCHANGED <<gateway, gwHist>>

\* serverService "admin:reload": unknown chain ids are ignored
OnAdminReload(chainId) ==
    IF chainId \in ChainIds
    THEN /\ gateway' = resetCheckpoints(gateway, chainId)
         /\ gwHist' = Observe(gwHist, "reset", chainId, zeroCheckpoint, gateway')
    ELSE UNCHANGED <<gateway, gwHist>>

\* chain ids an admin may ask to reload: the configured ones and a stranger
AdminReloadChainIds == ChainIds \cup {5}

(***************************************************************************)
(* The IndexingService as its constructor leaves it: no function states,   *)
(* no queue, a free mutex, nothing in flight.                              *)
(***************************************************************************)
Keys == {"A", "B"}

\* Object.keys(indexingFunctionStates): insertion order
KeyOrder == <<"A", "B">>

NoFlow == <<"none", 0>>

NewQueue(gen) == [defined |-> gen > 0, started |-> FALSE, pending |-> << >>, gen |-> gen]

NewMutex == [holder |-> NoFlow, waiters |-> << >>]

NewHist ==
    [maxDispatched |-> [k \in Keys |-> zeroCheckpoint],
     descended |-> [k \in Keys |-> FALSE],
     reorgs |-> 0, reverts |-> 0, reloads |-> 0,
     hasError |-> FALSE,                      \* ponder_indexing_has_error
     killed |-> FALSE,                        \* kill has been called
     done |-> [k \in Keys |-> {}],            \* events whose function returned
     lastEmit |-> Cp(-1, -1, -1, -1),         \* last eventsProcessed payload
     emitRegressed |-> FALSE,                 \* an emission went backwards
     flushed |-> FALSE,                       \* flush has written since start-up
     rejected |-> {}]                         \* callers whose runExclusive rejected

schedVars ==
    <<tableAccess, functionMetadata, isPaused, indexingFunctionStates, queue,
      workers, loadingMutex, loads, pe, reorg, resetPc, hist,
      isSetupStarted, setupFunctionStates, flushInterval>>

storeVars == <<syncStore, storeOp>>

vars == <<gateway, gwHist, tableAccess, functionMetadata, isPaused,
          indexingFunctionStates, queue, workers, loadingMutex, loads, pe,
          reorg, resetPc, hist, isSetupStarted, setupFunctionStates,
          flushInterval, syncStore, storeOp>>

(***************************************************************************)
(* Sync Store (PostgresSyncStore).  A table is a bag of rows; the chain    *)
(* data handed to the insert operations comes from the RPC, with           *)
(* quantities as hex digit sequences.                                      *)
(***************************************************************************)
MaxStoreBlock == 2      \* block numbers 1..MaxStoreBlock on each chain
MaxStoreOps == 3        \* store operations in a run

StoreBlockNumbers == 1..MaxStoreBlock

LogIndexes == {0, 1}

\* a quantity as the RPC encodes it, most significant hex digit first
numberToHex(n) == IF n < 16 THEN <<n>> ELSE <<n \div 16, n % 16>>

RECURSIVE hexToBigInt(_)
hexToBigInt(digits) ==
    IF digits = << >> THEN 0
    ELSE 16 * hexToBigInt(SubSeq(digits, 1, Len(digits) - 1)) + digits[Len(digits)]

\* blocks of the two chains interleave in time: block n of chain 1 at
\* timestamp n, block n of the other chain at timestamp n + 1
RpcBlock(chainId, n) ==
    [hash |-> <<"block", chainId, n>>,
     number |-> numberToHex(n),
     timestamp |-> numberToHex(IF chainId = 1 THEN n ELSE n + 1)]

RpcTransaction(chainId, n) ==
    [hash |-> <<"tx", chainId, n>>,
     blockHash |-> <<"block", chainId, n>>,
     blockNumber |-> numberToHex(n)]

RpcLog(chainId, n, i) ==
    [blockHash |-> <<"block", chainId, n>>,
     blockNumber |-> numberToHex(n),
     logIndex |-> numberToHex(i),
     transactionHash |-> <<"tx", chainId, n>>,
     address |-> IF i = 0 THEN "A" ELSE "B",
     topic0 |-> "T",
     topic1 |-> << >>]

\* a 32-byte topic holding an address: "0x", 24 hex digits of padding and
\* the 40 hex digits of the address, one character per element
addressTopic(n, i) ==
    <<"0", "x">> \o [k \in 1..24 |-> "0"]
                \o [k \in 1..40 |-> IF k = 39 THEN <<"0", "1", "2", "3">>[n + 1]
                                     ELSE IF k = 40 THEN <<"0", "1", "2", "3">>[i + 1]
                                     ELSE "0"]

\* a log the factory F emits for the child contract it created
RpcFactoryLog(chainId, n, i) ==
    [blockHash |-> <<"block", chainId, n>>,
     blockNumber |-> numberToHex(n),
     logIndex |-> numberToHex(i),
     transactionHash |-> <<"tx", chainId, n>>,
     address |-> "F",
     topic0 |-> "S",
     topic1 |-> addressTopic(n, i)]

\* a block with its transaction and some of its logs
RpcBatch(chainId, n, indexes) ==
    [block |-> RpcBlock(chainId, n),
     transactions |-> {RpcTransaction(chainId, n)},
     logs |-> {RpcLog(chainId, n, i) : i \in indexes}]

RpcBatches(chainId) ==
    {RpcBatch(chainId, n, indexes) : n \in StoreBlockNumbers, indexes \in {{0}, {0, 1}}}

rpcToPostgresBlock(block) ==
    [hash |-> block.hash,
     number |-> hexToBigInt(block.number),
     timestamp |-> hexToBigInt(block.timestamp)]

rpcToPostgresTransaction(transaction) ==
    [hash |-> transaction.hash,
     blockHash |-> transaction.blockHash,
     blockNumber |-> hexToBigInt(transaction.blockNumber)]

rpcToPostgresLog(log) ==
    [id |-> <<log.blockHash, hexToBigInt(log.logIndex)>>,
     blockHash |-> log.blockHash,
     blockNumber |-> hexToBigInt(log.blockNumber),
     logIndex |-> hexToBigInt(log.logIndex),
     transactionHash |-> log.transactionHash,
     address |-> log.address,
     topic0 |-> log.topic0,
     topic1 |-> log.topic1]

\* {...row, chainId}
withChainId(row, chainId) ==
    [f \in DOMAIN row \cup {"chainId"} |-> IF f = "chainId" THEN chainId ELSE row[f]]

\* insertInto(table).values(row)
insertInto(table, row) == table (+) SetToBag({row})

insertAgain(table, row, column) == insertInto(table, row)

\* insertInto(table).values(row).onConflict(column).doNothing()
insertOrIgnore(table, row, column) ==
    IF \E r \in BagToSet(table) : r[column] = row[column] THEN table
    ELSE insertInto(table, row)

\* insertInto(table).values(row).onConflict(column).doUpdateSet(row)
insertOrUpdate(table, row, column) ==
    LET others == {r \in BagToSet(table) : r[column] # row[column]}
    IN  [r \in others |-> table[r]] (+) SetToBag({row})

RECURSIVE insertAllOrIgnore(_, _, _)
insertAllOrIgnore(table, rows, column) ==
    IF rows = {} THEN table
    ELSE LET row == CHOOSE r \in rows : TRUE
         IN insertAllOrIgnore(insertOrIgnore(table, row, column), rows \ {row}, column)

\* deleteFrom(table).where(...): doomed is the set of rows the where matches
deleteFrom(table, doomed) == [r \in BagToSet(table) \ doomed |-> table[r]]

\* updateTable(table).set({endBlock}).where(...) on the rows in hit
RECURSIVE setEndBlock(_, _, _)
setEndBlock(table, hit, endBlock) ==
    IF hit = {} THEN table
    ELSE LET row == CHOOSE r \in hit : TRUE
             moved == [row EXCEPT !.endBlock = endBlock]
             rest == deleteFrom(table, {row})
             copies == [c \in {moved} |-> table[row]]
         IN setEndBlock(rest (+) copies, hit \ {row}, endBlock)

EmptyTables ==
    [blocks |-> EmptyBag, transactions |-> EmptyBag, logs |-> EmptyBag,
     rpcRequestResults |-> EmptyBag, logFilters |-> EmptyBag,
     logFilterIntervals |-> EmptyBag, factories |-> EmptyBag,
     factoryLogFilterIntervals |-> EmptyBag]

\* the upserts of a block with its transactions and logs
insertBlockData(db, chainId, batch) ==
    [db EXCEPT
       !.blocks = insertOrIgnore(@, withChainId(rpcToPostgresBlock(batch.block), chainId),
                                 "hash"),
       !.transactions = insertAllOrIgnore(@,
            {withChainId(rpcToPostgresTransaction(t), chainId) : t \in batch.transactions},
            "hash"),
       !.logs = insertAllOrIgnore(@,
            {withChainId(rpcToPostgresLog(l), chainId) : l \in batch.logs}, "id")]

\* no operation has run yet
NoStoreCall ==
    [method |-> "none", chainId |-> 0, args |-> << >>, result |-> "void", n |-> 0]

\* the sync store before any insert, no operation in progress
NewSyncStore ==
    /\ syncStore = EmptyTables
    /\ storeOp = NoStoreCall

NewIndexingService ==
    /\ isPaused = FALSE
    /\ indexingFunctionStates = << >>
    /\ queue = NewQueue(0)
    /\ workers = << >>
    /\ loadingMutex = NewMutex
    /\ loads = {}
    /\ reorg = [pc |-> "none", safeCheckpoint |-> zeroCheckpoint]
    /\ hist = NewHist
    /\ isSetupStarted = FALSE
    /\ setupFunctionStates = << >>
    /\ flushInterval = "none"

GatewayInit ==
    /\ gateway = NewGateway
    /\ gwHist = NewGwHist
    /\ NewIndexingService
    /\ tableAccess = [k \in Keys |-> [reads |-> {}, writes |-> {}]]
    /\ functionMetadata = [k \in Keys |-> zeroCheckpoint]
    /\ pe = << >>
    /\ resetPc = "none"
    /\ NewSyncStore

GatewayNext ==
    \/ UNCHANGED <<schedVars, storeVars>> /\ \E c \in GatewayCheckpoints : OnHistoricalCheckpoint(c)
    \/ UNCHANGED <<schedVars, storeVars>> /\ \E chainId \in ChainIds : OnSyncComplete(chainId)
    \/ UNCHANGED <<schedVars, storeVars>> /\ \E c \in GatewayCheckpoints : OnRealtimeCheckpoint(c)
    \/ UNCHANGED <<schedVars, storeVars>> /\ \E c \in GatewayCheckpoints : OnFinalityCheckpoint(c)
    \/ UNCHANGED <<schedVars, storeVars>> /\ \E c \in ReorgCheckpoints : OnShallowReorg(c)
    \/ UNCHANGED <<schedVars, storeVars>> /\ \E chainId \in AdminReloadChainIds : OnAdminReload(chainId)

GatewaySpec == GatewayInit /\ [][GatewayNext]_vars

(***************************************************************************)
(* Sync Gateway properties.                                                *)
(***************************************************************************)
GlobalMin(g) ==
    checkpointMin({perChainBest(g.networkCheckpoints[c]) : c \in ChainIds})

FinalityMin(g) ==
    checkpointMin({g.networkCheckpoints[c].finalityCheckpoint : c \in ChainIds})

\* C2 as stated: of any two successive newCheckpoint emissions the later
\* payload is strictly greater than the earlier one, whatever gateway
\* operations ran in between.
C2_SuccessiveEmissionsIncrease ==
    ~isCheckpointEqual(gwHist.prev, zeroCheckpoint)
        => isCheckpointGreaterThan(gwHist.last, gwHist.prev)

\* C2 amended: of two successive newCheckpoint emissions with no
\* resetCheckpoints call between them, the later payload is strictly
\* greater than the earlier one.
C2_EmissionsIncreaseBetweenResets ==
    (~isCheckpointEqual(gwHist.prev, zeroCheckpoint) /\ ~gwHist.resetBetween)
        => isCheckpointGreaterThan(gwHist.last, gwHist.prev)

C2_Witness ==
    /\ ~isCheckpointEqual(gwHist.prev, zeroCheckpoint)
    /\ ~gwHist.resetBetween
    /\ gateway.emitted.event = "newCheckpoint"

\* C3: the global checkpoint is the minimum over the chains of
\* perChainBest (an unreported chain counting as zeroCheckpoint), so nothing
\* is emitted before every chain contributes a non-zero value, and every
\* newCheckpoint emission carries exactly that minimum.
C3_GlobalIsMinOfPerChainBest ==
    /\ gateway.checkpoint = GlobalMin(gateway)
    /\ gateway.emitted.event = "newCheckpoint" =>
          /\ gateway.emitted.payload = GlobalMin(gateway)
          /\ \A c \in ChainIds :
                ~isCheckpointEqual(perChainBest(gateway.networkCheckpoints[c]),
                                   zeroCheckpoint)

C3_Witness ==
    /\ gateway.emitted.event = "newCheckpoint"
    /\ \E c \in ChainIds :
          /\ gateway.networkCheckpoints[c].isHistoricalSyncComplete
          /\ isCheckpointGreaterThan(gateway.networkCheckpoints[c].realtimeCheckpoint,
                                     gateway.networkCheckpoints[c].historicalCheckpoint)
    /\ \E c \in ChainIds : ~gateway.networkCheckpoints[c].isHistoricalSyncComplete

\* C4 as stated: a realtime checkpoint neither changes the global
\* checkpoint nor emits newCheckpoint while any chain is historical-incomplete.
C4_RealtimeGatedByAnyChain ==
    [][ ( /\ gwHist'.op = "realtime"
          /\ \E c \in ChainIds :
                ~gateway.networkCheckpoints[c].isHistoricalSyncComplete )
        => ( /\ gateway'.checkpoint = gateway.checkpoint
             /\ gateway'.emitted.event # "newCheckpoint" ) ]_vars

\* C4 amended: a realtime checkpoint of a chain that is itself
\* historical-incomplete neither changes the global checkpoint nor emits
\* newCheckpoint.
C4_RealtimeGatedByOwnChain ==
    [][ ( /\ gwHist'.op = "realtime"
          /\ ~gateway.networkCheckpoints[gwHist'.chainId].isHistoricalSyncComplete )
        => ( /\ gateway'.checkpoint = gateway.checkpoint
             /\ gateway'.emitted.event # "newCheckpoint" ) ]_vars

C4_Witness ==
    /\ gwHist.op = "realtime"
    /\ ~gateway.networkCheckpoints[gwHist.chainId].isHistoricalSyncComplete
    /\ isCheckpointGreaterThan(
          gateway.networkCheckpoints[gwHist.chainId].realtimeCheckpoint,
          gateway.networkCheckpoints[gwHist.chainId].historicalCheckpoint)
    /\ ~isCheckpointEqual(gateway.checkpoint, zeroCheckpoint)

\* C5 as stated: after historical (10,1), (12,10), (15,1) on a fresh gateway
\* the only newCheckpoint ever emitted is (10,1).
C5_OnlyFirstEmitted ==
    gwHist.script = 3 => gwHist.scriptEmits = << createCheckpoint(1, 10) >>

\* C5 amended: the first call emits nothing, the second emits (10,1) and the
\* third emits (12,10), the new minimum once chain 1 has passed chain 10.
C5_TwoChainScenario ==
    /\ gwHist.script = 1 => gwHist.scriptEmits = << >>
    /\ gwHist.script = 2 => gwHist.scriptEmits = << createCheckpoint(1, 10) >>
    /\ gwHist.script = 3 =>
          gwHist.scriptEmits = << createCheckpoint(1, 10), createCheckpoint(10, 12) >>

C5_Witness == gwHist.script = 3

\* C6: the global finalityCheckpoint is always the minimum of the per-chain
\* finality checkpoints, and handleNewFinalityCheckpoint emits
\* newFinalityCheckpoint, carrying the new minimum, exactly when that
\* minimum strictly increases.
C6_FinalityIsMin ==
    /\ [](gateway.finalityCheckpoint = FinalityMin(gateway))
    /\ [][ gwHist'.op = "finality" =>
              IF isCheckpointGreaterThan(FinalityMin(gateway'), FinalityMin(gateway))
              THEN gateway'.emitted = [event |-> "newFinalityCheckpoint",
                                       payload |-> FinalityMin(gateway')]
              ELSE gateway'.emitted = NoEmit ]_vars

C6_Witness ==
    /\ gwHist.op = "finality"
    /\ gateway.emitted.event = "newFinalityCheckpoint"
    /\ \E c \in ChainIds :
          isCheckpointGreaterThan(gateway.networkCheckpoints[c].finalityCheckpoint,
                                  gateway.finalityCheckpoint)

\* C7: resetCheckpoints({chainId}) clears that chain's checkpoints and
\* completion flag, zeroes the global checkpoint and finalityCheckpoint and
\* clears isHistoricalSyncComplete, which is true only when every chain has
\* been marked complete.
C7_ResetClears ==
    /\ gwHist.op = "reset" =>
          /\ gateway.networkCheckpoints[gwHist.chainId] = NewNetworkCheckpoints
          /\ gateway.checkpoint = zeroCheckpoint
          /\ gateway.finalityCheckpoint = zeroCheckpoint
          /\ ~gateway.isHistoricalSyncComplete
    /\ gateway.isHistoricalSyncComplete =>
          \A c \in ChainIds : gateway.networkCheckpoints[c].isHistoricalSyncComplete

C7_Witness ==
    /\ gwHist.op = "reset"
    /\ ~isCheckpointEqual(gwHist.last, zeroCheckpoint)
    /\ gwHist.resetSinceLast
    /\ \E c \in ChainIds :
          /\ c # gwHist.chainId
          /\ gateway.networkCheckpoints[c].isHistoricalSyncComplete
          /\ ~isCheckpointEqual(gateway.networkCheckpoints[c].finalityCheckpoint,
                                 zeroCheckpoint)


(***************************************************************************)
(* Indexing scheduler (IndexingService).  Two indexing function keys over  *)
(* one table; the build's table access decides parents and                 *)
(* self-dependency, and so which dispatch case each key falls in.          *)
(***************************************************************************)
MAX_BATCH_SIZE == 10000

Concurrency == 10

MaxBlock == 2       \* blocks the chain has, one log per key in each
MaxPE == 2          \* processEvents invocations in progress at once
MaxReorgs == 1      \* reorgs the gateway reports
MaxReloads == 1     \* admin reloads after the initial start

Access(r, w) == [reads |-> r, writes |-> w]

\* A writes what B reads; both read and write; only A reads and writes
TableAccessFixtures ==
    { [k \in Keys |-> IF k = "A" THEN Access({}, {"T"}) ELSE Access({"T"}, {})],
      [k \in Keys |-> Access({"T"}, {"T"})],
      [k \in Keys |-> IF k = "A" THEN Access({"T"}, {"T"}) ELSE Access({}, {})] }

\* the log of key k in block t; A's log precedes B's
EventCheckpoint(k, t) == Cp(t, 1, t, IF k = "A" THEN 0 ELSE 1)

StoreEvents(k) == {EventCheckpoint(k, t) : t \in 1..MaxBlock}

\* the gateway's checkpoint once block t is synced
BlockCheckpoint(t) == Cp(t, 1, t, 1)

SchedCheckpoints == {BlockCheckpoint(t) : t \in 1..MaxBlock}

undefinedCheckpoint == Cp(-1, -1, -1, -1)

RECURSIVE SortCheckpoints(_)
SortCheckpoints(S) ==
    IF S = {} THEN << >>
    ELSE LET m == checkpointMin(S) IN <<m>> \o SortCheckpoints(S \ {m})

checkpointMaxOf(S) ==
    CHOOSE m \in S : \A x \in S : isCheckpointGreaterThanOrEqualTo(m, x)

\* SyncStore.getLogEvents: rows in (fromCheckpoint, toCheckpoint], ascending,
\* limit + 1 of them fetched; lastCheckpoint is the newest row of the window
getEvents(k, fromCheckpoint, toCheckpoint, limit) ==
    LET window == {e \in StoreEvents(k) :
                       /\ isCheckpointGreaterThan(e, fromCheckpoint)
                       /\ ~isCheckpointGreaterThan(e, toCheckpoint)}
        sorted == SortCheckpoints(window)
        rows == SubSeq(sorted, 1, IF Len(sorted) > limit + 1 THEN limit + 1 ELSE Len(sorted))
        hasNextPage == Len(rows) = limit + 1
        events == IF hasNextPage THEN SubSeq(rows, 1, limit) ELSE rows
    IN  [events |-> events,
         hasNextPage |-> hasNextPage,
         lastCheckpointInPage |-> IF hasNextPage THEN events[Len(events)]
                                  ELSE undefinedCheckpoint,
         lastCheckpoint |-> IF window = {} THEN undefinedCheckpoint
                            ELSE checkpointMaxOf(window)]

\* buildIndexingFunctionStates: one state object per key
NewIndexingFunctionState(access, k, toCheckpoint) ==
    [parents |-> {p \in Keys \ {k} : access[p].writes \cap access[k].reads # {}},
     isSelfDependent |-> access[k].writes \cap access[k].reads # {},
     tasksProcessedToCheckpoint |-> toCheckpoint,
     tasksLoadedFromCheckpoint |-> toCheckpoint,
     tasksLoadedToCheckpoint |-> toCheckpoint,
     loadedTasks |-> << >>,
     lastEventCheckpoint |-> undefinedCheckpoint]

buildIndexingFunctionStates(access, metadata) ==
    [k \in Keys |-> NewIndexingFunctionState(access, k, metadata[k])]

isIndexingFunctionFullLoaded(st, cp, k) ==
    /\ st[k].lastEventCheckpoint # undefinedCheckpoint
    /\ isCheckpointGreaterThanOrEqualTo(st[k].tasksLoadedToCheckpoint,
                                        st[k].lastEventCheckpoint)
    /\ isCheckpointGreaterThanOrEqualTo(st[k].tasksLoadedToCheckpoint, cp)

RECURSIVE SumLoaded(_, _)
SumLoaded(st, S) ==
    IF S = {} THEN 0
    ELSE LET k == CHOOSE x \in S : TRUE
         IN Len(st[k].loadedTasks) + SumLoaded(st, S \ {k})

\* calculateTaskBatchSize with unfinishedCount starting from the number of
\* the other keys: with every other key fully loaded the division is by zero
\* and Math.floor yields Infinity, above every integer (written as the
\* square of MAX_BATCH_SIZE)
calculateTaskBatchSizeOfOthers(st, cp, key) ==
    LET finished == {k \in DOMAIN st \ {key} : isIndexingFunctionFullLoaded(st, cp, k)}
        totalBatchSize == MAX_BATCH_SIZE - SumLoaded(st, finished)
        unfinishedCount == Cardinality(DOMAIN st \ {key}) - Cardinality(finished)
    IN  IF unfinishedCount = 0 THEN MAX_BATCH_SIZE * MAX_BATCH_SIZE
        ELSE totalBatchSize \div unfinishedCount

calculateTaskBatchSize(st, cp, key) ==
    LET finished == {k \in DOMAIN st \ {key} : isIndexingFunctionFullLoaded(st, cp, k)}
        totalBatchSize == MAX_BATCH_SIZE - SumLoaded(st, finished)
        unfinishedCount == Cardinality(DOMAIN st) - Cardinality(finished)
    IN  totalBatchSize \div unfinishedCount

\* getLoadKeys: nothing unless some key ran dry before it was fully loaded
getLoadKeys(st, cp) ==
    LET dry == {i \in 1..Len(KeyOrder) :
                    /\ KeyOrder[i] \in DOMAIN st
                    /\ st[KeyOrder[i]].loadedTasks = << >>
                    /\ ~isIndexingFunctionFullLoaded(st, cp, KeyOrder[i])}
        emptyKey == KeyOrder[CHOOSE i \in dry : \A j \in dry : i <= j]
    IN  IF dry = {} THEN {}
        ELSE {k \in DOMAIN st :
                \/ st[k].lastEventCheckpoint = undefinedCheckpoint
                \/ /\ ~isIndexingFunctionFullLoaded(st, cp, k)
                   /\ 3 * Len(st[k].loadedTasks) < calculateTaskBatchSize(st, cp, emptyKey)}

\* the checkpoint up to which the tasks of key k have been loaded
getLoadedToCheckpoint(st, k) == st[k].tasksLoadedToCheckpoint

getStateCheckpoint(st, k) ==
    IF st[k].loadedTasks = << >> THEN st[k].tasksLoadedToCheckpoint
    ELSE st[k].tasksProcessedToCheckpoint

(***************************************************************************)
(* loadIndexingFunctionTasks.  The part before the await captures the      *)
(* state's task array and the query window; the part after it pushes the   *)
(* decoded events onto the captured array.  `detached` says the state has  *)
(* been given a new array since (state.loadedTasks = []), and `oldTasks`   *)
(* is what the captured one held then; `gen` is the generation of state    *)
(* objects the load captured.                                              *)
(***************************************************************************)
loadReturnsEarly(st, cp, k) ==
    /\ isCheckpointGreaterThanOrEqualTo(st[k].tasksLoadedToCheckpoint, cp)
    /\ st[k].lastEventCheckpoint # undefinedCheckpoint

loadStart(st, cp, k, gen) ==
    [key |-> k,
     fromCheckpoint |-> st[k].tasksLoadedToCheckpoint,
     toCheckpoint |-> cp,
     limit |-> calculateTaskBatchSize(st, cp, k),
     detached |-> FALSE, oldTasks |-> << >>, gen |-> gen]

\* the loads runExclusive's callback starts: getLoadKeys, then one per key
startLoads(st, cp, gen) ==
    {loadStart(st, cp, k, gen) : k \in {x \in getLoadKeys(st, cp) : ~loadReturnsEarly(st, cp, x)}}

\* the state object of the load's key after the load's continuation has run
\* on the result of getEvents
loadResult(state, l, result) ==
    LET captured == IF l.detached THEN l.oldTasks ELSE state.loadedTasks
        previousLength == Len(captured)
        pushed == captured \o
                  [i \in 1..Len(result.events) |->
                      [key |-> l.key, checkpoint |-> result.events[i], eventsProcessed |-> 0]]
        tasks == IF pushed = << >> THEN pushed
                 ELSE [pushed EXCEPT ![Len(pushed)].eventsProcessed = Len(result.events)]
        loadedTo == IF result.hasNextPage THEN result.lastCheckpointInPage
                    ELSE l.toCheckpoint
    IN  [state EXCEPT
           !.loadedTasks = IF l.detached THEN @ ELSE tasks,
           !.tasksLoadedToCheckpoint = loadedTo,
           !.tasksLoadedFromCheckpoint =
               IF Len(tasks) > 0
               THEN (IF previousLength = 0 THEN tasks[1].checkpoint ELSE @)
               ELSE loadedTo,
           !.lastEventCheckpoint =
               IF result.lastCheckpoint = undefinedCheckpoint
               THEN (IF @ = undefinedCheckpoint THEN l.toCheckpoint ELSE @)
               ELSE (IF @ = undefinedCheckpoint THEN result.lastCheckpoint
                     ELSE checkpointMax(result.lastCheckpoint, @))]

\* loadIndexingFunctionTasks after `await getEvents`
loadFinish(state, l) ==
    loadResult(state, l, getEvents(l.key, l.fromCheckpoint, l.toCheckpoint, l.limit))

\* a detached load that found nothing rewrites the batch flag of the last
\* task of the array it captured, a task already handed to the queue
loadRewritesFlag(l) ==
    /\ l.detached
    /\ l.oldTasks # << >>
    /\ getEvents(l.key, l.fromCheckpoint, l.toCheckpoint, l.limit).events = << >>

rewriteFlag(task, l) ==
    IF loadRewritesFlag(l) /\ task.key = l.key
       /\ task.checkpoint = l.oldTasks[Len(l.oldTasks)].checkpoint
    THEN [task EXCEPT !.eventsProcessed = 0]
    ELSE task

(***************************************************************************)
(* enqueueLogEventTasks, key by key: the tasks handed to the queue, the    *)
(* tasks that stay, and whether the state was given a new array.           *)
(***************************************************************************)
Keep(tasks) == [dispatch |-> << >>, remaining |-> tasks, replaced |-> FALSE]

ShiftOne(tasks) == [dispatch |-> <<tasks[1]>>, remaining |-> Tail(tasks), replaced |-> FALSE]

\* a pass that hands nothing over
HoldAll(tasks) == [dispatch |-> << >>, remaining |-> tasks, replaced |-> FALSE]

TakeAll(tasks) == [dispatch |-> tasks, remaining |-> << >>, replaced |-> TRUE]

\* Cases 1 and 3 handing over the newest loaded task instead of the oldest
ShiftLast(tasks) ==
    [dispatch |-> <<tasks[Len(tasks)]>>, remaining |-> SubSeq(tasks, 1, Len(tasks) - 1),
     replaced |-> FALSE]

enqueueKeyNewestFirst(st, k) ==
    LET state == st[k]
        tasks == state.loadedTasks
        parentLoadedFromCheckpoints == {st[p].tasksLoadedFromCheckpoint : p \in state.parents}
    IN  IF tasks = << >> THEN Keep(tasks)
        ELSE IF /\ state.parents = {}
                /\ state.isSelfDependent
                /\ isCheckpointGreaterThanOrEqualTo(state.tasksLoadedFromCheckpoint,
                                                    tasks[1].checkpoint)
        THEN ShiftLast(tasks)                                          \* Case 1
        ELSE IF state.parents = {} /\ ~state.isSelfDependent
        THEN TakeAll(tasks)                                           \* Case 2
        ELSE IF state.parents # {}
        THEN IF /\ state.isSelfDependent
                /\ isCheckpointGreaterThanOrEqualTo(
                       checkpointMin(parentLoadedFromCheckpoints
                                        \cup {state.tasksLoadedFromCheckpoint}),
                       tasks[1].checkpoint)
             THEN ShiftLast(tasks)                                     \* Case 3
             ELSE IF ~state.isSelfDependent
             THEN LET minParentCheckpoint == checkpointMin(parentLoadedFromCheckpoints)
                      over == {i \in 1..Len(tasks) :
                                 isCheckpointGreaterThan(tasks[i].checkpoint,
                                                         minParentCheckpoint)}
                      maxCheckpointIndex == CHOOSE i \in over : \A j \in over : i <= j
                  IN  IF over = {} THEN TakeAll(tasks)                \* Case 4
                      ELSE [dispatch |-> SubSeq(tasks, 1, maxCheckpointIndex - 1),
                            remaining |-> SubSeq(tasks, maxCheckpointIndex, Len(tasks)),
                            replaced |-> FALSE]
             ELSE Keep(tasks)
        ELSE Keep(tasks)

enqueueKey(st, k) ==
    LET state == st[k]
        tasks == state.loadedTasks
        parentLoadedFromCheckpoints == {st[p].tasksLoadedFromCheckpoint : p \in state.parents}
    IN  IF tasks = << >> THEN Keep(tasks)
        ELSE IF /\ state.parents = {}
                /\ state.isSelfDependent
                /\ isCheckpointGreaterThanOrEqualTo(state.tasksLoadedFromCheckpoint,
                                                    tasks[1].checkpoint)
        THEN ShiftOne(tasks)                                          \* Case 1
        ELSE IF state.parents = {} /\ ~state.isSelfDependent
        THEN TakeAll(tasks)                                           \* Case 2
        ELSE IF state.parents # {}
        THEN IF /\ state.isSelfDependent
                /\ isCheckpointGreaterThanOrEqualTo(
                       checkpointMin(parentLoadedFromCheckpoints
                                        \cup {state.tasksLoadedFromCheckpoint}),
                       tasks[1].checkpoint)
             THEN ShiftOne(tasks)                                     \* Case 3
             ELSE IF ~state.isSelfDependent
             THEN LET minParentCheckpoint == checkpointMin(parentLoadedFromCheckpoints)
                      over == {i \in 1..Len(tasks) :
                                 isCheckpointGreaterThan(tasks[i].checkpoint,
                                                         minParentCheckpoint)}
                      maxCheckpointIndex == CHOOSE i \in over : \A j \in over : i <= j
                  IN  IF over = {} THEN TakeAll(tasks)                \* Case 4
                      ELSE [dispatch |-> SubSeq(tasks, 1, maxCheckpointIndex - 1),
                            remaining |-> SubSeq(tasks, maxCheckpointIndex, Len(tasks)),
                            replaced |-> FALSE]
             ELSE Keep(tasks)
        ELSE Keep(tasks)

RECURSIVE FlattenDispatch(_, _)
FlattenDispatch(res, i) ==
    IF i > Len(KeyOrder) THEN << >>
    ELSE (IF KeyOrder[i] \in DOMAIN res THEN res[KeyOrder[i]].dispatch ELSE << >>)
         \o FlattenDispatch(res, i + 1)

(***************************************************************************)
(* The worker queue: `pending` tasks wait for a slot, `workers` maps the   *)
(* slots in use to the task each runs.  A queue that has not been started  *)
(* only collects tasks.                                                    *)
(***************************************************************************)
Running(w, gen) == Cardinality({s \in DOMAIN w : w[s].gen = gen})

FreeSlot(w) ==
    CHOOSE s \in 1..(Cardinality(DOMAIN w) + 1) :
        s \notin DOMAIN w /\ \A r \in 1..(s - 1) : r \in DOMAIN w

Without(w, s) == [r \in DOMAIN w \ {s} |-> w[r]]

\* the worker of a slot: the task, where its flow stands, the queue it
\* belongs to, the loop index i of the attempt in progress; and, observed,
\* the indexing function's invocations, the reverts and the error events of
\* this task, the last error thrown, how the attempt loop ended, and whether
\* the last invocation came after a terminal failure
NewWorker(task, gen) ==
    [task |-> task, pc |-> "exec", gen |-> gen, i |-> 0,
     calls |-> 1, reverts |-> 0, errors |-> 0, lastError |-> "none",
     outcome |-> "none", late |-> hist.hasError]

startWorker(w, task, gen) ==
    LET s == FreeSlot(w)
    IN  [r \in DOMAIN w \cup {s} |-> IF r = s THEN NewWorker(task, gen) ELSE w[r]]

RECURSIVE startPending(_)
startPending(qw) ==
    IF /\ qw.queue.started
       /\ qw.queue.pending # << >>
       /\ Running(qw.workers, qw.queue.gen) < Concurrency
    THEN startPending([queue |-> [qw.queue EXCEPT !.pending = Tail(@)],
                       workers |-> startWorker(qw.workers, Head(qw.queue.pending),
                                               qw.queue.gen)])
    ELSE qw

RECURSIVE addTasks(_, _)
addTasks(qw, tasks) ==
    IF tasks = << >> THEN qw
    ELSE addTasks(startPending([queue |-> [qw.queue EXCEPT !.pending = Append(@, Head(tasks))],
                                workers |-> qw.workers]),
                  Tail(tasks))

\* onIdle of the queue of generation gen
queueIdle(q, w, gen) ==
    /\ Running(w, gen) = 0
    /\ gen = q.gen => q.pending = << >>

(***************************************************************************)
(* Setup functions.  The build's table access may hold the key "setup" of  *)
(* the contract's setup function; its metadata row is zeroCheckpoint once  *)
(* written and undefinedCheckpoint before.                                 *)
(***************************************************************************)
SetupKeys(access) == DOMAIN access \ Keys

\* buildIndexingFunctionStates, the "setup" branch
buildSetupFunctionStates(access, metadata) ==
    [k \in SetupKeys(access) |-> [isComplete |-> metadata[k] # undefinedCheckpoint]]

\* the task of a setup function: zeroCheckpoint at the source's start block
SetupTask(k) == [key |-> k, checkpoint |-> Cp(0, 1, 1, 0), eventsProcessed |-> 0]

\* enqueueSetupTasks without the isComplete test
RECURSIVE enqueueSetupTasksAlways(_, _, _)
enqueueSetupTasksAlways(qw, sst, todo) ==
    IF todo = {} THEN qw
    ELSE LET k == CHOOSE x \in todo : TRUE
         IN enqueueSetupTasksAlways(addTasks(qw, <<SetupTask(k)>>), sst, todo \ {k})

RECURSIVE enqueueSetupTasks(_, _, _)
enqueueSetupTasks(qw, sst, todo) ==
    IF todo = {} THEN qw
    ELSE LET k == CHOOSE x \in todo : TRUE
         IN enqueueSetupTasks(IF sst[k].isComplete THEN qw
                              ELSE addTasks(qw, <<SetupTask(k)>>),
                              sst, todo \ {k})

(***************************************************************************)
(* Control flows.  A flow is <<"pe", i>> (a processEvents call),           *)
(* <<"task", s>> (the worker of slot s running executeLogEventTask) or     *)
(* <<"reorg", 0>> (a handleReorg call).  Each action below is one          *)
(* stretch of a flow between two awaits.  When the mutex is released to a  *)
(* waiter, the waiter's callback runs before anything else does, and then  *)
(* the releasing flow goes on; only after both is another event served.    *)
(***************************************************************************)
HandoffPending == loadingMutex.holder = NoFlow /\ loadingMutex.waiters # << >>

FreePE == {i \in 1..MaxPE : pe[i].pc = "none"}

LowestFreePE == CHOOSE i \in FreePE : \A j \in FreePE : i <= j

peWith(f, pc) == IF f[1] = "pe" THEN [pe EXCEPT ![f[2]].pc = pc] ELSE pe

workersWith(w, f, pc) == IF f[1] = "task" THEN [w EXCEPT ![f[2]].pc = pc] ELSE w

flowPc(f) ==
    IF f[1] = "pe" THEN pe[f[2]].pc
    ELSE IF f[1] = "task" /\ f[2] \in DOMAIN workers THEN workers[f[2]].pc
    ELSE "none"

Flows == {<<"pe", i>> : i \in 1..MaxPE} \cup {<<"task", s>> : s \in DOMAIN workers}

\* a flow that left runExclusive calls enqueueLogEventTasks before any timer,
\* I/O completion or event is served
EnqueuePending == \E f \in Flows : flowPc(f) \in {"enqueue", "return"}

Busy == HandoffPending \/ EnqueuePending

\* processEvents up to its first await
processEvents(i) ==
    IF DOMAIN indexingFunctionStates = {} \/ ~queue.defined \/ isPaused
    THEN UNCHANGED <<queue, workers, pe, isSetupStarted, setupFunctionStates>>
    ELSE LET now == [queue |-> queue, workers |-> workers]
             setup == IF isSetupStarted THEN now
                      ELSE enqueueSetupTasks(now, setupFunctionStates,
                                             DOMAIN setupFunctionStates)
             qw == startPending([queue |-> [setup.queue EXCEPT !.started = TRUE],
                                 workers |-> setup.workers])
         IN  /\ isSetupStarted' = TRUE
             /\ setupFunctionStates' =
                    [k \in DOMAIN setupFunctionStates |-> [isComplete |-> TRUE]]
             /\ queue' = qw.queue
             /\ workers' = qw.workers
             /\ pe' = [pe EXCEPT ![i] = [pc |-> "waitIdle", gen |-> queue.gen]]

\* the gateway emits newCheckpoint; Ponder's listener calls processEvents
GatewayNewCheckpoint(c) ==
    /\ ~Busy
    /\ FreePE # {}
    /\ isCheckpointGreaterThan(c, gateway.checkpoint)
    /\ gateway' = [gateway EXCEPT !.checkpoint = c]
    /\ processEvents(LowestFreePE)
    /\ UNCHANGED <<gwHist, tableAccess, functionMetadata, isPaused,
                   indexingFunctionStates, loadingMutex, loads, reorg, resetPc, hist>>
    /\ UNCHANGED <<flushInterval, storeVars>>

\* the gateway's finality checkpoint advances
GatewayNewFinalityCheckpoint(c) ==
    /\ ~Busy
    /\ isCheckpointGreaterThan(c, gateway.finalityCheckpoint)
    /\ gateway' = [gateway EXCEPT !.finalityCheckpoint = c]
    /\ UNCHANGED <<gwHist, schedVars, storeVars>>

\* processEvents after `await this.queue.onIdle()`
ProcessEventsOnIdle(i) ==
    /\ ~Busy
    /\ pe[i].pc = "waitIdle"
    /\ queueIdle(queue, workers, pe[i].gen)
    /\ IF isCheckpointEqual(gateway.checkpoint, zeroCheckpoint)
       THEN /\ pe' = [pe EXCEPT ![i].pc = "none"]
            /\ UNCHANGED loadingMutex
       ELSE /\ pe' = [pe EXCEPT ![i].pc = "waitMutex"]
            /\ loadingMutex' = [loadingMutex EXCEPT !.waiters = Append(@, <<"pe", i>>)]
    /\ UNCHANGED <<gateway, gwHist, tableAccess, functionMetadata, isPaused,
                   indexingFunctionStates, queue, workers, loads, reorg, resetPc, hist>>
    /\ UNCHANGED <<isSetupStarted, setupFunctionStates, flushInterval, storeVars>>

hasLoadedInvalidEvents(st, safeCheckpoint) ==
    \E k \in DOMAIN st :
        isCheckpointGreaterThan(st[k].tasksLoadedToCheckpoint, safeCheckpoint)

hasProcessedInvalidEvents(st, safeCheckpoint) ==
    \E k \in DOMAIN st :
        isCheckpointGreaterThan(st[k].tasksProcessedToCheckpoint, safeCheckpoint)

\* loadingMutex.runExclusive: the callback of the first waiter starts
RunExclusive ==
    /\ HandoffPending
    /\ LET f == Head(loadingMutex.waiters)
           rest == Tail(loadingMutex.waiters)
       IN  IF f[1] = "reorg"
           THEN LET invalid == hasProcessedInvalidEvents(indexingFunctionStates,
                                                         reorg.safeCheckpoint)
                IN  /\ loadingMutex' = [holder |-> IF invalid THEN f ELSE NoFlow,
                                        waiters |-> rest]
                    /\ reorg' = [reorg EXCEPT
                                   !.pc = IF invalid THEN "reverting" ELSE "processEvents"]
                    /\ UNCHANGED <<loads, pe, workers>>
           ELSE LET started == startLoads(indexingFunctionStates, gateway.checkpoint,
                                          queue.gen)
                    pc == IF started = {} THEN "enqueue" ELSE "loading"
                IN  /\ loadingMutex' = [holder |-> IF started = {} THEN NoFlow ELSE f,
                                        waiters |-> rest]
                    /\ loads' = started
                    /\ pe' = peWith(f, pc)
                    /\ workers' = workersWith(workers, f, pc)
                    /\ UNCHANGED reorg
    /\ UNCHANGED <<gateway, gwHist, tableAccess, functionMetadata, isPaused,
                   indexingFunctionStates, queue, resetPc, hist>>
    /\ UNCHANGED <<isSetupStarted, setupFunctionStates, flushInterval, storeVars>>

\* emitCheckpoint: the payload of the eventsProcessed event
emitCheckpoint(st) == checkpointMin({getStateCheckpoint(st, k) : k \in DOMAIN st})

\* the history after eventsProcessed has been emitted with toCheckpoint c
observeEmit(h, c) ==
    [h EXCEPT !.lastEmit = c,
              !.emitRegressed = @ \/ (/\ h.lastEmit # undefinedCheckpoint
                                       /\ isCheckpointGreaterThan(h.lastEmit, c))]

\* the load found its array empty and no event to push: it emits
loadEmits(state, l) ==
    /\ (IF l.detached THEN l.oldTasks ELSE state.loadedTasks) = << >>
    /\ getEvents(l.key, l.fromCheckpoint, l.toCheckpoint, l.limit).events = << >>

\* loadIndexingFunctionTasks after `await getEvents`; the last load to
\* finish ends the callback and releases the mutex
LoadIndexingFunctionTasks(l) ==
    /\ ~Busy
    /\ l \in loads
    /\ LET k == l.key
           last == loads = {l}
           f == loadingMutex.holder
           flagged == [s \in DOMAIN workers |->
                          IF workers[s].gen = l.gen
                          THEN [workers[s] EXCEPT !.task = rewriteFlag(@, l)]
                          ELSE workers[s]]
       IN  /\ indexingFunctionStates' =
                  IF l.gen = queue.gen
                  THEN [indexingFunctionStates EXCEPT ![k] = loadFinish(@, l)]
                  ELSE indexingFunctionStates
           /\ loads' = loads \ {l}
           /\ loadingMutex' = IF last THEN [loadingMutex EXCEPT !.holder = NoFlow]
                              ELSE loadingMutex
           /\ pe' = IF last THEN peWith(f, "enqueue") ELSE pe
           /\ workers' = IF last THEN workersWith(flagged, f, "enqueue") ELSE flagged
           /\ queue' = IF l.gen = queue.gen
                       THEN [queue EXCEPT !.pending =
                                [i \in 1..Len(@) |-> rewriteFlag(@[i], l)]]
                       ELSE queue
           /\ hist' = IF loadEmits(indexingFunctionStates[k], l)
                      THEN observeEmit(hist, emitCheckpoint(indexingFunctionStates'))
                      ELSE hist
    /\ UNCHANGED <<gateway, gwHist, tableAccess, functionMetadata, isPaused,
                   reorg, resetPc>>
    /\ UNCHANGED <<isSetupStarted, setupFunctionStates, flushInterval, storeVars>>

\* executeLogEventTask: the indexing function returns
ExecuteLogEventTask(s) ==
    /\ ~Busy
    /\ s \in DOMAIN workers
    /\ workers[s].pc = "exec"
    /\ workers[s].task.key \in Keys
    /\ LET task == workers[s].task
           st == [indexingFunctionStates EXCEPT ![task.key] =
                    [@ EXCEPT
                       !.tasksProcessedToCheckpoint = checkpointMax(@, task.checkpoint),
                       !.tasksLoadedFromCheckpoint =
                           IF Len(indexingFunctionStates[task.key].loadedTasks) > 0
                           THEN indexingFunctionStates[task.key].loadedTasks[1].checkpoint
                           ELSE indexingFunctionStates[task.key].tasksLoadedToCheckpoint]]
           done == [hist EXCEPT !.done[task.key] = @ \cup {task.checkpoint}]
       IN  /\ indexingFunctionStates' = st
           /\ hist' = IF task.eventsProcessed # 0
                      THEN observeEmit(done, emitCheckpoint(st))
                      ELSE done
    /\ workers' = [workers EXCEPT ![s].pc = "waitMutex", ![s].outcome = "ok"]
    /\ loadingMutex' = [loadingMutex EXCEPT !.waiters = Append(@, <<"task", s>>)]
    /\ UNCHANGED <<gateway, gwHist, tableAccess, functionMetadata, isPaused,
                   queue, loads, pe, reorg, resetPc>>
    /\ UNCHANGED <<isSetupStarted, setupFunctionStates, flushInterval, storeVars>>

\* executeSetupTask: the setup function returns
ExecuteSetupTask(s) ==
    /\ ~Busy
    /\ s \in DOMAIN workers
    /\ workers[s].pc = "exec"
    /\ workers[s].task.key \notin Keys
    /\ workers' = [workers EXCEPT ![s].pc = "return", ![s].outcome = "ok"]
    /\ UNCHANGED <<gateway, gwHist, tableAccess, functionMetadata, isPaused,
                   indexingFunctionStates, queue, loadingMutex, loads, pe, reorg,
                   resetPc, hist>>
    /\ UNCHANGED <<isSetupStarted, setupFunctionStates, flushInterval, storeVars>>

Errors == {"Error", "NonRetryableError"}

\* the catch block's `if (error_ instanceof NonRetryableError) i = 3`
attemptIndex(i, error) == IF error = "NonRetryableError" THEN 3 ELSE i

isLastAttemptFifth(i, error) == attemptIndex(i, error) = 4

\* the catch block's `if (i === 3)`
isLastAttempt(i, error) == attemptIndex(i, error) = 3

\* the worker's flow once the attempt loop has been left: executeLogEventTask
\* goes on to runExclusive, executeSetupTask returns
afterLoop(w) ==
    [w EXCEPT !.pc = IF w.task.key \in Keys THEN "waitMutex" ELSE "return"]

\* executeLogEventTask / executeSetupTask: the indexing function throws.  On
\* the last attempt the service pauses, the queue is paused and cleared, the
\* error gauge is set and "error" is emitted; otherwise the store's revert
\* is called
ExecuteTaskThrows(s, error) ==
    /\ ~Busy
    /\ s \in DOMAIN workers
    /\ workers[s].pc = "exec"
    /\ LET w == [workers[s] EXCEPT !.lastError = error]
       IN  IF isLastAttempt(w.i, error)
           THEN /\ isPaused' = TRUE
                /\ queue' = [queue EXCEPT !.started = FALSE, !.pending = << >>]
                /\ hist' = [hist EXCEPT !.hasError = TRUE]
                /\ workers' = [workers EXCEPT ![s] =
                                  afterLoop([w EXCEPT !.i = 4, !.errors = @ + 1,
                                                      !.outcome = "failed"])]
                /\ loadingMutex' =
                      IF w.task.key \in Keys
                      THEN [loadingMutex EXCEPT !.waiters = Append(@, <<"task", s>>)]
                      ELSE loadingMutex
           ELSE /\ workers' = [workers EXCEPT ![s] =
                                  [w EXCEPT !.pc = "revert", !.reverts = @ + 1]]
                /\ UNCHANGED <<isPaused, queue, hist, loadingMutex>>
    /\ UNCHANGED <<gateway, gwHist, tableAccess, functionMetadata,
                   indexingFunctionStates, loads, pe, reorg, resetPc>>
    /\ UNCHANGED <<isSetupStarted, setupFunctionStates, flushInterval, storeVars>>

\* after `await this.indexingStore.revert`: the loop's i++ and i < 4, then
\* the next attempt or the end of the loop
ExecuteTaskReverted(s) ==
    /\ ~Busy
    /\ s \in DOMAIN workers
    /\ workers[s].pc = "revert"
    /\ LET w == [workers[s] EXCEPT !.i = @ + 1]
       IN  IF w.i < 4
           THEN /\ workers' = [workers EXCEPT ![s] =
                                  [w EXCEPT !.pc = "exec", !.calls = @ + 1,
                                            !.late = hist.hasError]]
                /\ UNCHANGED loadingMutex
           ELSE /\ workers' = [workers EXCEPT ![s] = afterLoop(w)]
                /\ loadingMutex' =
                      IF w.task.key \in Keys
                      THEN [loadingMutex EXCEPT !.waiters = Append(@, <<"task", s>>)]
                      ELSE loadingMutex
    /\ UNCHANGED <<gateway, gwHist, tableAccess, functionMetadata, isPaused,
                   indexingFunctionStates, queue, loads, pe, reorg, resetPc, hist>>
    /\ UNCHANGED <<isSetupStarted, setupFunctionStates, flushInterval, storeVars>>

\* executeSetupTask has returned: the worker gives its slot back and the
\* queue starts the next pending task
SetupTaskReturns(s) ==
    /\ ~HandoffPending
    /\ s \in DOMAIN workers
    /\ workers[s].pc = "return"
    /\ LET ended == startPending([queue |-> queue, workers |-> Without(workers, s)])
       IN  /\ queue' = ended.queue
           /\ workers' = ended.workers
    /\ UNCHANGED <<gateway, gwHist, tableAccess, functionMetadata, isPaused,
                   indexingFunctionStates, loadingMutex, loads, pe, reorg,
                   resetPc, hist>>
    /\ UNCHANGED <<isSetupStarted, setupFunctionStates, flushInterval, storeVars>>

\* the dispatch history of key k after the tasks d have been handed over
RECURSIVE observeDispatch(_, _)
observeDispatch(h, d) ==
    IF d = << >> THEN h
    ELSE LET c == Head(d).checkpoint
         IN observeDispatch(
               [maxDispatched |-> checkpointMax(h.maxDispatched, c),
                descended |-> h.descended \/ ~isCheckpointGreaterThan(c, h.maxDispatched)],
               Tail(d))

\* enqueueLogEventTasks, then the end of the flow that called it: a worker
\* gives its slot back and the queue starts the next pending task
EnqueueLogEventTasks(f) ==
    /\ ~HandoffPending
    /\ f \in Flows
    /\ flowPc(f) = "enqueue"
    /\ LET st == indexingFunctionStates
           res == [k \in DOMAIN st |-> IF isPaused THEN Keep(st[k].loadedTasks)
                                       ELSE enqueueKey(st, k)]
           added == addTasks([queue |-> queue, workers |-> workers],
                             FlattenDispatch(res, 1))
           ended == IF f[1] = "task"
                    THEN startPending([queue |-> added.queue,
                                       workers |-> Without(added.workers, f[2])])
                    ELSE added
       IN  /\ indexingFunctionStates' =
                  [k \in DOMAIN st |-> [st[k] EXCEPT !.loadedTasks = res[k].remaining]]
           /\ loads' = {IF l.gen = queue.gen /\ ~l.detached /\ res[l.key].replaced
                        THEN [l EXCEPT !.detached = TRUE,
                                       !.oldTasks = st[l.key].loadedTasks]
                        ELSE l : l \in loads}
           /\ queue' = ended.queue
           /\ workers' = ended.workers
           /\ pe' = peWith(f, "none")
           /\ hist' = [hist EXCEPT
                  !.maxDispatched = [k \in Keys |->
                      IF k \in DOMAIN res
                      THEN observeDispatch([maxDispatched |-> hist.maxDispatched[k],
                                            descended |-> hist.descended[k]],
                                           res[k].dispatch).maxDispatched
                      ELSE @[k]],
                  !.descended = [k \in Keys |->
                      IF k \in DOMAIN res
                      THEN observeDispatch([maxDispatched |-> hist.maxDispatched[k],
                                            descended |-> hist.descended[k]],
                                           res[k].dispatch).descended
                      ELSE @[k]]]
    /\ UNCHANGED <<gateway, gwHist, tableAccess, functionMetadata, isPaused,
                   loadingMutex, reorg, resetPc>>
    /\ UNCHANGED <<isSetupStarted, setupFunctionStates, flushInterval, storeVars>>

(***************************************************************************)
(* handleReorg, called by Ponder's listener on the gateway's reorg event,  *)
(* which then calls processEvents.                                         *)
(***************************************************************************)
HandleReorg(safeCheckpoint) ==
    /\ ~Busy
    /\ reorg.pc = "none"
    /\ hist.reorgs < MaxReorgs
    /\ reorg' = [pc |-> "waitMutex", safeCheckpoint |-> safeCheckpoint]
    /\ loadingMutex' = [loadingMutex EXCEPT !.waiters = Append(@, <<"reorg", 0>>)]
    /\ hist' = [hist EXCEPT !.reorgs = @ + 1]
    /\ UNCHANGED <<gateway, gwHist, tableAccess, functionMetadata, isPaused,
                   indexingFunctionStates, queue, workers, loads, pe, resetPc>>
    /\ UNCHANGED <<isSetupStarted, setupFunctionStates, flushInterval, storeVars>>

clamp(c, safeCheckpoint) ==
    IF isCheckpointGreaterThan(c, safeCheckpoint) THEN safeCheckpoint ELSE c

\* handleReorg after `await this.indexingStore.revert`
HandleReorgReverted ==
    /\ ~Busy
    /\ reorg.pc = "reverting"
    /\ indexingFunctionStates' =
          [k \in DOMAIN indexingFunctionStates |->
              [indexingFunctionStates[k] EXCEPT
                 !.tasksProcessedToCheckpoint = clamp(@, reorg.safeCheckpoint),
                 !.tasksLoadedFromCheckpoint = clamp(@, reorg.safeCheckpoint),
                 !.tasksLoadedToCheckpoint = clamp(@, reorg.safeCheckpoint)]]
    /\ reorg' = [reorg EXCEPT !.pc = "processEvents"]
    /\ loadingMutex' = [loadingMutex EXCEPT !.holder = NoFlow]
    /\ hist' = [hist EXCEPT !.reverts = @ + 1]
    /\ UNCHANGED <<gateway, gwHist, tableAccess, functionMetadata, isPaused,
                   queue, workers, loads, pe, resetPc>>
    /\ UNCHANGED <<isSetupStarted, setupFunctionStates, flushInterval, storeVars>>

\* the listener's processEvents call once handleReorg has returned
HandleReorgProcessEvents ==
    /\ ~Busy
    /\ reorg.pc = "processEvents"
    /\ FreePE # {}
    /\ reorg' = [reorg EXCEPT !.pc = "none"]
    /\ processEvents(LowestFreePE)
    /\ UNCHANGED <<gateway, gwHist, tableAccess, functionMetadata, isPaused,
                   indexingFunctionStates, loadingMutex, loads, resetPc, hist>>
    /\ UNCHANGED <<flushInterval, storeVars>>

(***************************************************************************)
(* reset: at start-up, and again on the server's admin:reload, which first *)
(* resets the gateway's checkpoints.                                       *)
(***************************************************************************)
AdminReload ==
    /\ ~Busy
    /\ resetPc = "none"
    /\ hist.reloads < MaxReloads
    /\ gateway' = [gateway EXCEPT !.checkpoint = zeroCheckpoint,
                                  !.finalityCheckpoint = zeroCheckpoint]
    /\ resetPc' = "pending"
    /\ hist' = [hist EXCEPT !.reloads = @ + 1]
    /\ UNCHANGED <<gwHist, tableAccess, functionMetadata, isPaused,
                   indexingFunctionStates, queue, workers, loadingMutex, loads,
                   pe, reorg>>
    /\ UNCHANGED <<isSetupStarted, setupFunctionStates, flushInterval, storeVars>>

\* reset up to `await this.queue?.onIdle()`
Reset ==
    /\ ~Busy
    /\ resetPc = "pending"
    /\ isPaused' = TRUE
    /\ resetPc' = "waitIdle"
    /\ UNCHANGED <<gateway, gwHist, tableAccess, functionMetadata,
                   indexingFunctionStates, queue, workers, loadingMutex, loads,
                   pe, reorg, hist>>
    /\ UNCHANGED <<isSetupStarted, setupFunctionStates, flushInterval, storeVars>>

\* the rows flush hands to the database
flushRows(st, sst, finalityCheckpoint, metadata) ==
    [k \in DOMAIN metadata |->
        IF k \in DOMAIN st
        THEN LET toCheckpoint == checkpointMin({getStateCheckpoint(st, k),
                                                finalityCheckpoint})
             IN IF isCheckpointEqual(toCheckpoint, zeroCheckpoint) THEN metadata[k]
                ELSE toCheckpoint
        ELSE IF k \in DOMAIN sst /\ sst[k].isComplete THEN zeroCheckpoint
        ELSE metadata[k]]

\* reset from the queue being idle up to `await this.flush()`
ResetOnIdle ==
    /\ ~Busy
    /\ resetPc = "waitIdle"
    /\ queue.defined => queueIdle(queue, workers, queue.gen)
    /\ isPaused' = FALSE
    /\ functionMetadata' = flushRows(indexingFunctionStates, setupFunctionStates,
                                     gateway.finalityCheckpoint, functionMetadata)
    /\ hist' = [hist EXCEPT !.flushed = TRUE]
    /\ resetPc' = "flush"
    /\ UNCHANGED <<gateway, gwHist, tableAccess, indexingFunctionStates, queue,
                   workers, loadingMutex, loads, pe, reorg>>
    /\ UNCHANGED <<isSetupStarted, setupFunctionStates, flushInterval, storeVars>>

cancelled(f) == \E i \in 1..Len(loadingMutex.waiters) : loadingMutex.waiters[i] = f

\* Mutex.cancel rejects the pending acquire of every waiter with E_CANCELED:
\* runExclusive rejects before its callback is entered, so a try/catch inside
\* the callback never sees it.  None of processEvents, handleReorg and
\* executeLogEventTask wraps the call itself: the caller's promise rejects.
rejectWaiters(h) ==
    [h EXCEPT !.rejected =
        @ \cup {loadingMutex.waiters[i][1] : i \in 1..Len(loadingMutex.waiters)}]

\* reset after the flush: cancel the mutex's waiters, rebuild the function
\* states from the persisted metadata, create a new queue, clear the error
\* gauge and set the flush timer (a callback of the old timer that is in
\* progress goes on)
ResetRebuild ==
    /\ ~Busy
    /\ resetPc = "flush"
    /\ loadingMutex' = [loadingMutex EXCEPT !.waiters = << >>]
    /\ pe' = [i \in 1..MaxPE |->
                 IF cancelled(<<"pe", i>>) THEN [pe[i] EXCEPT !.pc = "none"] ELSE pe[i]]
    /\ workers' = [s \in {r \in DOMAIN workers : ~cancelled(<<"task", r>>)} |-> workers[s]]
    /\ reorg' = IF cancelled(<<"reorg", 0>>) THEN [reorg EXCEPT !.pc = "none"] ELSE reorg
    /\ indexingFunctionStates' = buildIndexingFunctionStates(tableAccess, functionMetadata)
    /\ queue' = NewQueue(queue.gen + 1)
    /\ isSetupStarted' = FALSE
    /\ setupFunctionStates' = buildSetupFunctionStates(tableAccess, functionMetadata)
    /\ isPaused' = FALSE
    /\ hist' = [rejectWaiters(hist) EXCEPT !.hasError = FALSE]
    /\ flushInterval' = IF flushInterval \in {"none", "idle"} THEN "idle"
                        ELSE flushInterval
    /\ resetPc' = "processEvents"
    /\ UNCHANGED <<gateway, gwHist, tableAccess, functionMetadata, loads>>
    /\ UNCHANGED storeVars

\* the caller's processEvents call once reset has returned
ResetProcessEvents ==
    /\ ~Busy
    /\ resetPc = "processEvents"
    /\ FreePE # {}
    /\ resetPc' = "none"
    /\ processEvents(LowestFreePE)
    /\ UNCHANGED <<gateway, gwHist, tableAccess, functionMetadata, isPaused,
                   indexingFunctionStates, loadingMutex, loads, reorg, hist>>
    /\ UNCHANGED <<flushInterval, storeVars>>

(***************************************************************************)
(* The flush timer reset sets, and kill.                                   *)
(***************************************************************************)
\* the timer fires: the callback up to `await this.queue?.onIdle()`
FlushInterval ==
    /\ ~Busy
    /\ flushInterval = "idle"
    /\ isPaused' = TRUE
    /\ flushInterval' = "waitIdle"
    /\ UNCHANGED <<gateway, gwHist, tableAccess, functionMetadata,
                   indexingFunctionStates, queue, workers, loadingMutex, loads,
                   pe, reorg, resetPc, hist>>
    /\ UNCHANGED <<isSetupStarted, setupFunctionStates, storeVars>>

\* the callback from the queue being idle up to `await this.flush()`
FlushIntervalOnIdle ==
    /\ ~Busy
    /\ flushInterval = "waitIdle"
    /\ queue.defined => queueIdle(queue, workers, queue.gen)
    /\ isPaused' = FALSE
    /\ functionMetadata' = flushRows(indexingFunctionStates, setupFunctionStates,
                                     gateway.finalityCheckpoint, functionMetadata)
    /\ hist' = [hist EXCEPT !.flushed = TRUE]
    /\ flushInterval' = "flush"
    /\ UNCHANGED <<gateway, gwHist, tableAccess, indexingFunctionStates, queue,
                   workers, loadingMutex, loads, pe, reorg, resetPc>>
    /\ UNCHANGED <<isSetupStarted, setupFunctionStates, storeVars>>

\* the callback after the flush: processEvents, not awaited
FlushIntervalProcessEvents ==
    /\ ~Busy
    /\ flushInterval = "flush"
    /\ FreePE # {}
    /\ flushInterval' = "idle"
    /\ processEvents(LowestFreePE)
    /\ UNCHANGED <<gateway, gwHist, tableAccess, functionMetadata, isPaused,
                   indexingFunctionStates, loadingMutex, loads, reorg, resetPc, hist>>
    /\ UNCHANGED storeVars

\* kill: pause, clear the timer and the queue, cancel the mutex's waiters and
\* flush, without waiting for the tasks that are running
Kill ==
    /\ ~Busy
    /\ ~hist.killed
    /\ resetPc = "none"
    /\ isPaused' = TRUE
    /\ flushInterval' = IF flushInterval = "idle" THEN "none" ELSE flushInterval
    /\ queue' = IF queue.defined THEN [queue EXCEPT !.started = FALSE, !.pending = << >>]
                ELSE queue
    /\ loadingMutex' = [loadingMutex EXCEPT !.waiters = << >>]
    /\ pe' = [i \in 1..MaxPE |->
                 IF cancelled(<<"pe", i>>) THEN [pe[i] EXCEPT !.pc = "none"] ELSE pe[i]]
    /\ workers' = [s \in {r \in DOMAIN workers : ~cancelled(<<"task", r>>)} |-> workers[s]]
    /\ functionMetadata' = flushRows(indexingFunctionStates, setupFunctionStates,
                                     gateway.finalityCheckpoint, functionMetadata)
    /\ hist' = [rejectWaiters(hist) EXCEPT !.killed = TRUE, !.flushed = TRUE]
    /\ UNCHANGED <<gateway, gwHist, tableAccess, indexingFunctionStates, loads,
                   reorg, resetPc>>
    /\ UNCHANGED <<isSetupStarted, setupFunctionStates, storeVars>>

\* progress rows an earlier run left behind (zeroCheckpoint: no row)
PersistedMetadata == [Keys -> {zeroCheckpoint} \cup SchedCheckpoints]

Init ==
    /\ gateway = NewGateway
    /\ gwHist = NewGwHist
    /\ NewIndexingService
    /\ tableAccess \in TableAccessFixtures
    /\ functionMetadata \in PersistedMetadata
    /\ pe = [i \in 1..MaxPE |-> [pc |-> "none", gen |-> 0]]
    /\ resetPc = "pending"
    /\ NewSyncStore

Next ==
    \/ \E c \in SchedCheckpoints : GatewayNewCheckpoint(c)
    \/ \E i \in 1..MaxPE : ProcessEventsOnIdle(i)
    \/ RunExclusive
    \/ \E l \in loads : LoadIndexingFunctionTasks(l)
    \/ \E s \in DOMAIN workers : ExecuteLogEventTask(s)
    \/ \E f \in Flows : EnqueueLogEventTasks(f)
    \/ \E c \in SchedCheckpoints : HandleReorg(c)
    \/ HandleReorgReverted
    \/ HandleReorgProcessEvents
    \/ Reset
    \/ ResetOnIdle
    \/ ResetRebuild
    \/ ResetProcessEvents

Spec == Init /\ [][Next]_vars

(***************************************************************************)
(* The scheduler under admin reloads and finality advances, without        *)
(* reorgs: one table access, nothing persisted at start-up.                *)
(***************************************************************************)
ReloadInit ==
    /\ Init
    /\ tableAccess = [k \in Keys |-> IF k = "A" THEN Access({}, {"T"})
                                     ELSE Access({"T"}, {})]
    /\ functionMetadata = [k \in Keys |-> zeroCheckpoint]

ReloadNext ==
    \/ \E c \in SchedCheckpoints : GatewayNewCheckpoint(c)
    \/ \E c \in SchedCheckpoints : GatewayNewFinalityCheckpoint(c)
    \/ \E i \in 1..MaxPE : ProcessEventsOnIdle(i)
    \/ RunExclusive
    \/ \E l \in loads : LoadIndexingFunctionTasks(l)
    \/ \E s \in DOMAIN workers : ExecuteLogEventTask(s)
    \/ \E f \in Flows : EnqueueLogEventTasks(f)
    \/ AdminReload
    \/ Reset
    \/ ResetOnIdle
    \/ ResetRebuild
    \/ ResetProcessEvents

ReloadSpec == ReloadInit /\ [][ReloadNext]_vars

(***************************************************************************)
(* The scheduler with a setup function, indexing functions that throw a    *)
(* NonRetryableError, the flush timer, finality advances and kill, without *)
(* reorgs or reloads: one table access, nothing persisted at start-up.     *)
(***************************************************************************)
FailInit ==
    /\ gateway = NewGateway
    /\ gwHist = NewGwHist
    /\ NewIndexingService
    /\ tableAccess = [k \in Keys \cup {"setup"} |->
                         IF k = "A" THEN Access({}, {"T"})
                         ELSE IF k = "B" THEN Access({"T"}, {})
                         ELSE Access({}, {})]
    /\ functionMetadata = [k \in Keys \cup {"setup"} |->
                              IF k \in Keys THEN zeroCheckpoint ELSE undefinedCheckpoint]
    /\ pe = [i \in 1..MaxPE |-> [pc |-> "none", gen |-> 0]]
    /\ resetPc = "pending"
    /\ NewSyncStore

FailNext ==
    \/ \E c \in SchedCheckpoints : GatewayNewCheckpoint(c)
    \/ \E c \in SchedCheckpoints : GatewayNewFinalityCheckpoint(c)
    \/ \E i \in 1..MaxPE : ProcessEventsOnIdle(i)
    \/ RunExclusive
    \/ \E l \in loads : LoadIndexingFunctionTasks(l)
    \/ \E s \in DOMAIN workers : ExecuteLogEventTask(s)
    \/ \E s \in DOMAIN workers : ExecuteSetupTask(s)
    \/ \E s \in DOMAIN workers : ExecuteTaskThrows(s, "NonRetryableError")
    \/ \E s \in DOMAIN workers : SetupTaskReturns(s)
    \/ \E f \in Flows : EnqueueLogEventTasks(f)
    \/ FlushInterval
    \/ FlushIntervalOnIdle
    \/ FlushIntervalProcessEvents
    \/ Kill
    \/ Reset
    \/ ResetOnIdle
    \/ ResetRebuild
    \/ ResetProcessEvents

FailSpec == FailInit /\ [][FailNext]_vars

(***************************************************************************)
(* The same start-up with indexing functions that throw any error and are  *)
(* retried: no timer, no finality advance, no kill.                        *)
(***************************************************************************)
RetryNext ==
    \/ \E c \in SchedCheckpoints : GatewayNewCheckpoint(c)
    \/ \E i \in 1..MaxPE : ProcessEventsOnIdle(i)
    \/ RunExclusive
    \/ \E l \in loads : LoadIndexingFunctionTasks(l)
    \/ \E s \in DOMAIN workers : ExecuteLogEventTask(s)
    \/ \E s \in DOMAIN workers : ExecuteSetupTask(s)
    \/ \E s \in DOMAIN workers, error \in Errors : ExecuteTaskThrows(s, error)
    \/ \E s \in DOMAIN workers : ExecuteTaskReverted(s)
    \/ \E s \in DOMAIN workers : SetupTaskReturns(s)
    \/ \E f \in Flows : EnqueueLogEventTasks(f)
    \/ Reset
    \/ ResetOnIdle
    \/ ResetRebuild
    \/ ResetProcessEvents

RetrySpec == FailInit /\ [][RetryNext]_vars

(***************************************************************************)
(* Indexing scheduler properties.                                          *)
(***************************************************************************)
\* tasks of key k handed to the queue whose indexing function has not returned
InFlight(k) ==
    {s \in DOMAIN workers : workers[s].pc = "exec" /\ workers[s].task.key = k}

PendingOf(k) == {i \in 1..Len(queue.pending) : queue.pending[i].key = k}

\* C1: every function state keeps tasksProcessedToCheckpoint <=
\* tasksLoadedFromCheckpoint <= tasksLoadedToCheckpoint, under loads,
\* dispatch, completion, handleReorg and reset.
C1_CheckpointsOrdered ==
    \A k \in DOMAIN indexingFunctionStates :
        LET state == indexingFunctionStates[k]
        IN  /\ isCheckpointGreaterThanOrEqualTo(state.tasksLoadedFromCheckpoint,
                                                state.tasksProcessedToCheckpoint)
            /\ isCheckpointGreaterThanOrEqualTo(state.tasksLoadedToCheckpoint,
                                                state.tasksLoadedFromCheckpoint)

\* C8: the tasks of each key are handed to the queue in strictly ascending
\* checkpoint order, over any number of loads, dispatches and completions
\* (no reorg has rewound the states, no reload has rebuilt them).
C8_DispatchAscending ==
    (hist.reverts = 0 /\ hist.reloads = 0) => \A k \in Keys : ~hist.descended[k]

\* a serial key whose two tasks were handed over one after the other and
\* have both completed, with no reorg
C8_Witness ==
    /\ hist.reverts = 0
    /\ \E k \in DOMAIN indexingFunctionStates :
          /\ indexingFunctionStates[k].isSelfDependent
          /\ hist.maxDispatched[k] = EventCheckpoint(k, MaxBlock)
          /\ indexingFunctionStates[k].tasksProcessedToCheckpoint
                 = EventCheckpoint(k, MaxBlock)
          /\ InFlight(k) = {}

\* checkpoints of the tasks of key k handed to the queue and not completed
Dispatched(k) ==
    {workers[s].task.checkpoint : s \in InFlight(k)}
        \cup {queue.pending[i].checkpoint : i \in PendingOf(k)}

Loaded(k) ==
    {indexingFunctionStates[k].loadedTasks[i].checkpoint :
        i \in 1..Len(indexingFunctionStates[k].loadedTasks)}

\* C9: while a task of a parent key with a checkpoint below c is loaded or
\* dispatched but not completed, no task with checkpoint c of the child key
\* is dispatched or executing.
C9_ParentsFirst ==
    \A k \in DOMAIN indexingFunctionStates :
      \A p \in indexingFunctionStates[k].parents :
        \A c \in Dispatched(k) :
          \A a \in Dispatched(p) \cup Loaded(p) : ~isCheckpointGreaterThan(c, a)

\* C10: a self-dependent key has at most one task in flight (dispatched and
\* not completed) at any moment.
C10_SelfDependentSerial ==
    \A k \in DOMAIN indexingFunctionStates :
        indexingFunctionStates[k].isSelfDependent
            => Cardinality(InFlight(k)) + Cardinality(PendingOf(k)) <= 1

C12_PausedAfterTerminalFailure ==
    (hist.hasError /\ resetPc = "none") =>
        /\ isPaused
        /\ ~queue.started
        /\ queue.pending = << >>
        /\ \A s \in DOMAIN workers : ~workers[s].late /\ workers[s].errors <= 1

\* C13: when handleReorg finds no function with tasksProcessedToCheckpoint
\* above safeCheckpoint it changes no function state and does not call the
\* store's revert; otherwise it calls revert once and then leaves every
\* function's three checkpoints at or below safeCheckpoint, values that were
\* already at or below it unchanged, so that a load started next begins at
\* or below safeCheckpoint.
C13_HandleReorgClamps ==
    [][ LET st == indexingFunctionStates
            safe == reorg.safeCheckpoint
            unsafe == \E k \in DOMAIN st :
                         isCheckpointGreaterThan(st[k].tasksProcessedToCheckpoint, safe)
            Clamped(old, new) ==
                /\ ~isCheckpointGreaterThan(new, safe)
                /\ ~isCheckpointGreaterThan(old, safe) => new = old
        IN  /\ (reorg.pc = "waitMutex" /\ reorg'.pc = "processEvents") =>
                  /\ ~unsafe
                  /\ indexingFunctionStates' = st
                  /\ hist'.reverts = hist.reverts
            /\ (reorg.pc = "waitMutex" /\ reorg'.pc = "reverting") =>
                  /\ unsafe
                  /\ indexingFunctionStates' = st
                  /\ hist'.reverts = hist.reverts
            /\ hist'.reverts # hist.reverts => reorg.pc = "reverting"
            /\ (reorg.pc = "reverting" /\ reorg'.pc # "reverting") =>
                  /\ hist'.reverts = hist.reverts + 1
                  /\ \A k \in DOMAIN st :
                        /\ Clamped(st[k].tasksProcessedToCheckpoint,
                                   indexingFunctionStates'[k].tasksProcessedToCheckpoint)
                        /\ Clamped(st[k].tasksLoadedFromCheckpoint,
                                   indexingFunctionStates'[k].tasksLoadedFromCheckpoint)
                        /\ Clamped(st[k].tasksLoadedToCheckpoint,
                                   indexingFunctionStates'[k].tasksLoadedToCheckpoint)
                        /\ ~isCheckpointGreaterThan(
                               loadStart(indexingFunctionStates', gateway.checkpoint,
                                         k, queue.gen).fromCheckpoint, safe) ]_vars

C13_Witness ==
    /\ hist.reverts = 1
    /\ reorg.pc = "processEvents"
    /\ \E k \in DOMAIN indexingFunctionStates :
          /\ indexingFunctionStates[k].tasksProcessedToCheckpoint = reorg.safeCheckpoint
          /\ indexingFunctionStates[k].tasksLoadedToCheckpoint = reorg.safeCheckpoint
    /\ \E k \in DOMAIN indexingFunctionStates :
          /\ indexingFunctionStates[k].tasksProcessedToCheckpoint # zeroCheckpoint
          /\ isCheckpointGreaterThan(reorg.safeCheckpoint,
                                     indexingFunctionStates[k].tasksProcessedToCheckpoint)

\* C14: the toCheckpoint of every functionMetadata row flush has written
\* (from the timer, from reset or from kill, also after a terminal failure)
\* is at most the greatest checkpoint up to which every event of the
\* function has been processed successfully: no event at or below a
\* persisted toCheckpoint is still to be processed.
C14_FlushedProgressCompleted ==
    \A k \in Keys :
        \A e \in StoreEvents(k) :
            ~isCheckpointGreaterThan(e, functionMetadata[k]) => e \in hist.done[k]

\* C15: over loads and task completions (no reorg has been handled) the
\* toCheckpoint of each eventsProcessed emission is at least the toCheckpoint
\* of the emission before it.
C15_EmissionsMonotone ==
    hist.reorgs = 0 => ~hist.emitRegressed

(***************************************************************************)
(* Filters, fragments and interval bookkeeping.  A filter's address is a   *)
(* set of addresses, empty when the filter has none; a fragment has one    *)
(* address or "null".                                                      *)
(***************************************************************************)
LogFilter(addresses) == [address |-> addresses, topic0 |-> "T"]

LogFilters == {LogFilter({}), LogFilter({"A"}), LogFilter({"B"}), LogFilter({"A", "B"})}

Factory == [address |-> "F", eventSelector |-> "S", childAddressLocation |-> "topic1"]

StoreIntervals == {<<s, e>> \in StoreBlockNumbers \X StoreBlockNumbers : s <= e}

\* buildLogFilterFragments: the cross product of the filter's slots
buildLogFilterFragments(logFilter, chainId) ==
    {[id |-> <<chainId, a, logFilter.topic0>>, chainId |-> chainId,
      address |-> a, topic0 |-> logFilter.topic0] :
        a \in IF logFilter.address = {} THEN {"null"} ELSE logFilter.address}

buildFactoryFragments(factory, chainId) ==
    {[id |-> <<chainId, factory.address, factory.eventSelector,
               factory.childAddressLocation>>,
      chainId |-> chainId, address |-> factory.address,
      eventSelector |-> factory.eventSelector,
      childAddressLocation |-> factory.childAddressLocation]}

\* intervalUnion: sorted, overlapping and adjacent intervals merged
RECURSIVE sortIntervals(_)
sortIntervals(S) ==
    IF S = {} THEN << >>
    ELSE LET first == CHOOSE x \in S :
                         \A y \in S : x[1] < y[1] \/ (x[1] = y[1] /\ x[2] <= y[2])
         IN <<first>> \o sortIntervals(S \ {first})

RECURSIVE mergeSorted(_)
mergeSorted(seq) ==
    IF Len(seq) < 2 THEN seq
    ELSE IF seq[2][1] <= seq[1][2] + 1
         THEN mergeSorted(<< <<seq[1][1], IF seq[2][2] > seq[1][2] THEN seq[2][2]
                                          ELSE seq[1][2]>> >>
                          \o SubSeq(seq, 3, Len(seq)))
         ELSE <<seq[1]>> \o mergeSorted(Tail(seq))

intervalUnion(S) == mergeSorted(sortIntervals(S))

Range(seq) == {seq[i] : i \in 1..Len(seq)}

intervalIntersection(xs, ys) ==
    intervalUnion({<<IF x[1] > y[1] THEN x[1] ELSE y[1],
                     IF x[2] < y[2] THEN x[2] ELSE y[2]>> :
                       <<x, y>> \in {p \in Range(xs) \X Range(ys) :
                                       p[1][1] <= p[2][2] /\ p[2][1] <= p[1][2]}})

\* intervalIntersectionMany over the set of interval lists
RECURSIVE intervalIntersectionMany(_)
intervalIntersectionMany(lists) ==
    IF lists = {} THEN << >>
    ELSE LET xs == CHOOSE l \in lists : TRUE
         IN IF lists = {xs} THEN xs
            ELSE intervalIntersection(xs, intervalIntersectionMany(lists \ {xs}))

\* _insertLogFilterInterval: upsert each fragment, append the interval to it
RECURSIVE insertLogFilterIntervalRows(_, _, _)
insertLogFilterIntervalRows(db, fragments, interval) ==
    IF fragments = {} THEN db
    ELSE LET f == CHOOSE x \in fragments : TRUE
         IN insertLogFilterIntervalRows(
                [db EXCEPT
                   !.logFilters = insertOrUpdate(@, f, "id"),
                   !.logFilterIntervals =
                       insertInto(@, [logFilterId |-> f.id,
                                      startBlock |-> interval[1],
                                      endBlock |-> interval[2]])],
                fragments \ {f}, interval)

\* _insertFactoryLogFilterInterval
RECURSIVE insertFactoryLogFilterIntervalRows(_, _, _)
insertFactoryLogFilterIntervalRows(db, fragments, interval) ==
    IF fragments = {} THEN db
    ELSE LET f == CHOOSE x \in fragments : TRUE
         IN insertFactoryLogFilterIntervalRows(
                [db EXCEPT
                   !.factories = insertOrUpdate(@, f, "id"),
                   !.factoryLogFilterIntervals =
                       insertInto(@, [factoryId |-> f.id,
                                      startBlock |-> interval[1],
                                      endBlock |-> interval[2]])],
                fragments \ {f}, interval)

insertLogFilterInterval(db, chainId, logFilter, batch, interval) ==
    insertLogFilterIntervalRows(insertBlockData(db, chainId, batch),
                                buildLogFilterFragments(logFilter, chainId), interval)

insertFactoryLogFilterInterval(db, chainId, factory, batch, interval) ==
    insertFactoryLogFilterIntervalRows(insertBlockData(db, chainId, batch),
                                       buildFactoryFragments(factory, chainId), interval)

insertRealtimeBlock(db, chainId, batch) == insertBlockData(db, chainId, batch)

insertFactoryChildAddressLogs(db, chainId, logs) ==
    [db EXCEPT !.logs = insertAllOrIgnore(@,
         {withChainId(rpcToPostgresLog(l), chainId) : l \in logs}, "id")]

insertRpcRequestResult(db, chainId, blockNumber, result) ==
    LET others == {r \in BagToSet(db.rpcRequestResults) :
                      ~(r.chainId = chainId /\ r.blockNumber = blockNumber
                        /\ r.request = "eth_call")}
    IN  [db EXCEPT !.rpcRequestResults =
           [r \in others |-> @[r]]
           (+) SetToBag({[request |-> "eth_call", chainId |-> chainId,
                          blockNumber |-> blockNumber, result |-> result]})]

\* getLogFilterIntervals, first part: the interval rows of each fragment are
\* deleted and their union is inserted
\* the delete of the merge without the insert that follows it
RECURSIVE dropLogFilterIntervals(_, _)
dropLogFilterIntervals(db, fragments) ==
    IF fragments = {} THEN db
    ELSE LET f == CHOOSE x \in fragments : TRUE
             existing == {r \in BagToSet(db.logFilterIntervals) : r.logFilterId = f.id}
         IN dropLogFilterIntervals(
                [db EXCEPT
                   !.logFilters = insertOrUpdate(@, f, "id"),
                   !.logFilterIntervals = deleteFrom(@, existing)],
                fragments \ {f})

RECURSIVE compactLogFilterIntervals(_, _)
compactLogFilterIntervals(db, fragments) ==
    IF fragments = {} THEN db
    ELSE LET f == CHOOSE x \in fragments : TRUE
             existing == {r \in BagToSet(db.logFilterIntervals) : r.logFilterId = f.id}
             merged == intervalUnion({<<r.startBlock, r.endBlock>> : r \in existing})
             mergedRows == {[logFilterId |-> f.id, startBlock |-> merged[i][1],
                             endBlock |-> merged[i][2]] : i \in 1..Len(merged)}
         IN compactLogFilterIntervals(
                [db EXCEPT
                   !.logFilters = insertOrUpdate(@, f, "id"),
                   !.logFilterIntervals = deleteFrom(@, existing) (+) SetToBag(mergedRows)],
                fragments \ {f})

matchesExactly(row, fragment) == row.id = fragment.id

\* the join condition of the second part: every slot of the stored filter
\* row is null or equal to the fragment's
matchesFragment(row, fragment) ==
    /\ row.address = "null" \/ (fragment.address # "null" /\ fragment.address = row.address)
    /\ row.topic0 = "null" \/ (fragment.topic0 # "null" /\ fragment.topic0 = row.topic0)

\* the interval rows the join yields for a fragment
intervalsByFragmentId(db, chainId, fragment) ==
    {<<r.startBlock, r.endBlock>> :
        r \in {x \in BagToSet(db.logFilterIntervals) :
                 \E g \in BagToSet(db.logFilters) :
                    /\ g.id = x.logFilterId
                    /\ g.chainId = chainId
                    /\ matchesFragment(g, fragment)}}

\* getLogFilterIntervals: the tables afterwards and the intervals returned
getLogFilterIntervals(db, chainId, logFilter) ==
    LET fragments == buildLogFilterFragments(logFilter, chainId)
        compacted == compactLogFilterIntervals(db, fragments)
    IN  [db |-> compacted,
         result |-> intervalIntersectionMany(
                       {intervalUnion(intervalsByFragmentId(compacted, chainId, f)) :
                           f \in fragments})]

greaterThanOrEqual(a, b) == a >= b

greaterThan(a, b) == a > b

\* the subquery of deleteRealtimeData: the chain of the filter an interval
\* row belongs to
intervalRowsOfChain(intervals, filters, column, chainId) ==
    {r \in BagToSet(intervals) :
        \E g \in BagToSet(filters) : g.id = r[column] /\ g.chainId = chainId}

deleteRealtimeData(db, chainId, fromBlock) ==
    LET deleted == [db EXCEPT
            !.blocks = deleteFrom(@, {r \in BagToSet(@) :
                          r.chainId = chainId /\ greaterThan(r.number, fromBlock)}),
            !.transactions = deleteFrom(@, {r \in BagToSet(@) :
                          r.chainId = chainId /\ greaterThan(r.blockNumber, fromBlock)}),
            !.logs = deleteFrom(@, {r \in BagToSet(@) :
                          r.chainId = chainId /\ greaterThan(r.blockNumber, fromBlock)}),
            !.rpcRequestResults = deleteFrom(@, {r \in BagToSet(@) :
                          r.chainId = chainId /\ greaterThan(r.blockNumber, fromBlock)}),
            !.logFilterIntervals = deleteFrom(@,
                 {r \in intervalRowsOfChain(@, db.logFilters, "logFilterId", chainId) :
                      greaterThan(r.startBlock, fromBlock)}),
            !.factoryLogFilterIntervals = deleteFrom(@,
                 {r \in intervalRowsOfChain(@, db.factories, "factoryId", chainId) :
                      greaterThan(r.startBlock, fromBlock)})]
    IN  [deleted EXCEPT
            !.logFilterIntervals = setEndBlock(@,
                 {r \in intervalRowsOfChain(@, db.logFilters, "logFilterId", chainId) :
                      greaterThan(r.endBlock, fromBlock)}, fromBlock),
            !.factoryLogFilterIntervals = setEndBlock(@,
                 {r \in intervalRowsOfChain(@, db.factories, "factoryId", chainId) :
                      greaterThan(r.endBlock, fromBlock)}, fromBlock)]

\* a checkpoint at block granularity has no log index
undefinedLogIndex == -1

\* the checkpoints getLogEvents is asked about
EventCheckpoints ==
    {zeroCheckpoint, Cp(1, 1, 1, undefinedLogIndex), Cp(1, 1, 1, 0),
     Cp(2, 1, 2, undefinedLogIndex),
     Cp(2, 10, 1, undefinedLogIndex), Cp(2, 10, 1, 0), Cp(3, 10, 2, 1)}

\* logs left-joined to blocks on blocks.hash = logs.blockHash: a log whose
\* block is not in the store gets the null block
NULL == -1

NullBlock == [hash |-> << >>, number |-> NULL, timestamp |-> NULL]

joinBlocks(db) ==
    {[log |-> l, block |-> b] :
        <<l, b>> \in {p \in BagToSet(db.logs) \X (BagToSet(db.blocks) \cup {NullBlock}) :
                        IF \E x \in BagToSet(db.blocks) : x.hash = p[1].blockHash
                        THEN p[2].hash = p[1].blockHash
                        ELSE p[2] = NullBlock}}

\* a comparison of a column with a value; with a null column it is not true
cmp(column, operand, value) ==
    /\ column # NULL
    /\ CASE operand = ">" -> column > value
         [] operand = ">=" -> column >= value
         [] operand = "<" -> column < value
         [] operand = "<=" -> column <= value

\* the columns compared one by one, no column taking precedence
buildCheckpointCmprsFlat(row, op, checkpoint) ==
    LET operandOrEquals == IF op \in {">", ">="} THEN ">=" ELSE "<="
    IN  /\ cmp(row.block.timestamp, operandOrEquals, checkpoint.blockTimestamp)
        /\ cmp(row.log.chainId, operandOrEquals, checkpoint.chainId)
        /\ cmp(row.block.number, operandOrEquals, checkpoint.blockNumber)
        /\ checkpoint.logIndex = undefinedLogIndex
              \/ cmp(row.log.logIndex, op, checkpoint.logIndex)

buildCheckpointCmprs(row, op, checkpoint) ==
    LET operand == IF op \in {">", ">="} THEN ">" ELSE "<"
        operandOrEquals == IF op \in {">", ">="} THEN ">=" ELSE "<="
        isInclusive == op \in {">=", "<="}
        last == IF isInclusive THEN operandOrEquals ELSE operand
    IN  IF checkpoint.logIndex = undefinedLogIndex
        THEN /\ cmp(row.block.timestamp, operandOrEquals, checkpoint.blockTimestamp)
             /\ \/ cmp(row.block.timestamp, operand, checkpoint.blockTimestamp)
                \/ /\ cmp(row.log.chainId, operandOrEquals, checkpoint.chainId)
                   /\ \/ cmp(row.log.chainId, operand, checkpoint.chainId)
                      \/ cmp(row.block.number, last, checkpoint.blockNumber)
        ELSE /\ cmp(row.block.timestamp, operandOrEquals, checkpoint.blockTimestamp)
             /\ \/ cmp(row.block.timestamp, operand, checkpoint.blockTimestamp)
                \/ /\ cmp(row.log.chainId, operandOrEquals, checkpoint.chainId)
                   /\ \/ cmp(row.log.chainId, operand, checkpoint.chainId)
                      \/ /\ cmp(row.block.number, operandOrEquals, checkpoint.blockNumber)
                         /\ \/ cmp(row.block.number, operand, checkpoint.blockNumber)
                            \/ cmp(row.log.logIndex, last, checkpoint.logIndex)

\* a source of getLogEvents: a log filter of a chain with its event selector
LogSource(chainId, addresses) ==
    [chainId |-> chainId, criteria |-> LogFilter(addresses), eventSelector |-> "T"]

buildLogFilterCmprs(row, logFilter) ==
    /\ row.log.chainId = logFilter.chainId
    /\ logFilter.criteria.address = {} \/ row.log.address \in logFilter.criteria.address
    /\ row.log.topic0 = logFilter.criteria.topic0

\* orderBy blocks.timestamp, logs.chainId, blocks.number, logs.logIndex
orderedBefore(x, y) ==
    \/ x.block.timestamp < y.block.timestamp
    \/ /\ x.block.timestamp = y.block.timestamp
       /\ \/ x.log.chainId < y.log.chainId
          \/ /\ x.log.chainId = y.log.chainId
             /\ \/ x.block.number < y.block.number
                \/ /\ x.block.number = y.block.number
                   /\ x.log.logIndex <= y.log.logIndex

RECURSIVE orderBy(_)
orderBy(rows) ==
    IF rows = {} THEN << >>
    ELSE LET first == CHOOSE x \in rows : \A y \in rows : orderedBefore(x, y)
         IN <<first>> \o orderBy(rows \ {first})

\* a query without .limit
noLimit(seq, n) == seq

\* .limit(n)
limitTo(seq, n) == IF Len(seq) > n THEN SubSeq(seq, 1, n) ELSE seq

\* the event built from a row of the query
toEvent(row) ==
    [chainId |-> row.log.chainId, log |-> row.log, block |-> row.block]

eventCheckpoint(event) ==
    Cp(event.block.timestamp, event.chainId, event.block.number, event.log.logIndex)

getLogEvents(db, fromCheckpoint, toCheckpoint, limit, logFilters) ==
    LET requested ==
            {row \in joinBlocks(db) :
                /\ \E logFilter \in logFilters :
                      /\ buildLogFilterCmprs(row, logFilter)
                      /\ row.log.topic0 = logFilter.eventSelector
                /\ buildCheckpointCmprs(row, ">", fromCheckpoint)
                /\ buildCheckpointCmprs(row, "<=", toCheckpoint)}
        sorted == orderBy(requested)
        requestedLogs == limitTo(sorted, limit + 1)
        events == [i \in 1..Len(requestedLogs) |-> toEvent(requestedLogs[i])]
        lastCheckpoint ==
            IF Len(sorted) = 0 THEN undefinedCheckpoint
            ELSE eventCheckpoint(toEvent(sorted[Len(sorted)]))
    IN  IF Len(events) = limit + 1
        THEN [events |-> SubSeq(events, 1, limit),
              hasNextPage |-> TRUE,
              lastCheckpointInPage |-> eventCheckpoint(events[limit]),
              lastCheckpoint |-> lastCheckpoint]
        ELSE [events |-> events,
              hasNextPage |-> FALSE,
              lastCheckpointInPage |-> undefinedCheckpoint,
              lastCheckpoint |-> lastCheckpoint]

(***************************************************************************)
(* The sync store's operations as actions.  storeOp records the operation  *)
(* that ran last, its arguments and what it returned.                      *)
(***************************************************************************)
StoreCall(method, chainId, args, result) ==
    [method |-> method, chainId |-> chainId, args |-> args, result |-> result,
     n |-> storeOp.n + 1]

\* a historical sync task hands in the last block of the interval it synced
HistoricalBatches(chainId) ==
    {<<batch, interval>> \in RpcBatches(chainId) \X StoreIntervals :
        hexToBigInt(batch.block.number) = interval[2]}

InsertLogFilterInterval(chainId, logFilter, batch, interval) ==
    /\ storeOp.n < MaxStoreOps
    /\ syncStore' = insertLogFilterInterval(syncStore, chainId, logFilter, batch, interval)
    /\ storeOp' = StoreCall("insertLogFilterInterval", chainId,
                            <<logFilter, batch, interval>>, "void")
    /\ UNCHANGED <<gateway, gwHist, schedVars>>

InsertFactoryLogFilterInterval(chainId, factory, batch, interval) ==
    /\ storeOp.n < MaxStoreOps
    /\ syncStore' = insertFactoryLogFilterInterval(syncStore, chainId, factory, batch,
                                                   interval)
    /\ storeOp' = StoreCall("insertFactoryLogFilterInterval", chainId,
                            <<factory, batch, interval>>, "void")
    /\ UNCHANGED <<gateway, gwHist, schedVars>>

InsertRealtimeBlock(chainId, batch) ==
    /\ storeOp.n < MaxStoreOps
    /\ syncStore' = insertRealtimeBlock(syncStore, chainId, batch)
    /\ storeOp' = StoreCall("insertRealtimeBlock", chainId, <<batch>>, "void")
    /\ UNCHANGED <<gateway, gwHist, schedVars>>

InsertFactoryChildAddressLogs(chainId, logs) ==
    /\ storeOp.n < MaxStoreOps
    /\ syncStore' = insertFactoryChildAddressLogs(syncStore, chainId, logs)
    /\ storeOp' = StoreCall("insertFactoryChildAddressLogs", chainId, <<logs>>, "void")
    /\ UNCHANGED <<gateway, gwHist, schedVars>>

InsertRpcRequestResult(chainId, blockNumber, result) ==
    /\ storeOp.n < MaxStoreOps
    /\ syncStore' = insertRpcRequestResult(syncStore, chainId, blockNumber, result)
    /\ storeOp' = StoreCall("insertRpcRequestResult", chainId,
                            <<blockNumber, result>>, "void")
    /\ UNCHANGED <<gateway, gwHist, schedVars>>

DeleteRealtimeData(chainId, fromBlock) ==
    /\ storeOp.n < MaxStoreOps
    /\ syncStore' = deleteRealtimeData(syncStore, chainId, fromBlock)
    /\ storeOp' = StoreCall("deleteRealtimeData", chainId, <<fromBlock>>, "void")
    /\ UNCHANGED <<gateway, gwHist, schedVars>>

GetLogFilterIntervals(chainId, logFilter) ==
    LET got == getLogFilterIntervals(syncStore, chainId, logFilter)
    IN  /\ storeOp.n < MaxStoreOps
        /\ syncStore' = got.db
        /\ storeOp' = StoreCall("getLogFilterIntervals", chainId, <<logFilter>>,
                                got.result)
        /\ UNCHANGED <<gateway, gwHist, schedVars>>

StoreInit == GatewayInit

StoreNext ==
    \/ \E chainId \in ChainIds, logFilter \in LogFilters :
         \E h \in HistoricalBatches(chainId) :
            InsertLogFilterInterval(chainId, logFilter, h[1], h[2])
    \/ \E chainId \in ChainIds : \E h \in HistoricalBatches(chainId) :
            InsertFactoryLogFilterInterval(chainId, Factory, h[1], h[2])
    \/ \E chainId \in ChainIds : \E batch \in RpcBatches(chainId) :
            InsertRealtimeBlock(chainId, batch)
    \/ \E chainId \in ChainIds, n \in StoreBlockNumbers :
            InsertFactoryChildAddressLogs(chainId, {RpcLog(chainId, n, 0)})
    \/ \E chainId \in ChainIds, n \in StoreBlockNumbers :
            InsertRpcRequestResult(chainId, n, "0x")
    \/ \E chainId \in ChainIds, fromBlock \in 0..MaxStoreBlock :
            DeleteRealtimeData(chainId, fromBlock)
    \/ \E chainId \in ChainIds, logFilter \in LogFilters :
            GetLogFilterIntervals(chainId, logFilter)

StoreSpec == StoreInit /\ [][StoreNext]_vars

(***************************************************************************)
(* getLogEvents over the contents the inserts can leave in the store.      *)
(***************************************************************************)
RECURSIVE insertRealtimeBlocks(_, _)
insertRealtimeBlocks(db, batches) ==
    IF batches = {} THEN db
    ELSE LET b == CHOOSE x \in batches : TRUE
         IN insertRealtimeBlocks(insertRealtimeBlock(db, b[1], b[2]), batches \ {b})

\* per chain and block number: the block is absent, or present with its
\* first log or with both; the child address log of a block that is absent
\* may be in the store as well
EventStores ==
    {insertRealtimeBlocks(
         IF orphan THEN insertFactoryChildAddressLogs(EmptyTables, 1, {RpcLog(1, 2, 0)})
         ELSE EmptyTables,
         {<<p[1], RpcBatch(p[1], p[2], present[p])>> :
             p \in {q \in ChainIds \X StoreBlockNumbers : present[q] # {}}}) :
       present \in [ChainIds \X StoreBlockNumbers -> {{}, {0}, {0, 1}}],
       orphan \in BOOLEAN}

EventSources ==
    {{LogSource(1, {}), LogSource(10, {})}, {LogSource(1, {"A"})},
     {LogSource(10, {"A", "B"})}}

EventLimits == {1, 5}

GetLogEvents(fromCheckpoint, toCheckpoint, limit, logFilters) ==
    /\ storeOp = NoStoreCall
    /\ storeOp' = [method |-> "getLogEvents", chainId |-> 0,
                   args |-> <<fromCheckpoint, toCheckpoint, limit, logFilters>>,
                   result |-> getLogEvents(syncStore, fromCheckpoint, toCheckpoint,
                                           limit, logFilters),
                   n |-> 1]
    /\ UNCHANGED <<gateway, gwHist, schedVars, syncStore>>

EventsInit ==
    /\ gateway = NewGateway
    /\ gwHist = NewGwHist
    /\ NewIndexingService
    /\ tableAccess = [k \in Keys |-> [reads |-> {}, writes |-> {}]]
    /\ functionMetadata = [k \in Keys |-> zeroCheckpoint]
    /\ pe = << >>
    /\ resetPc = "none"
    /\ syncStore \in EventStores
    /\ storeOp = NoStoreCall

EventsNext ==
    \E fromCheckpoint \in EventCheckpoints, toCheckpoint \in EventCheckpoints,
       limit \in EventLimits, logFilters \in EventSources :
         GetLogEvents(fromCheckpoint, toCheckpoint, limit, logFilters)

EventsSpec == EventsInit /\ [][EventsNext]_vars

(***************************************************************************)
(* The retry envelope every operation runs in (wrap).                      *)
(***************************************************************************)
RETRY_COUNT == 3

BASE_DURATION == 100

MaxWrapCalls == 2       \* operations started in a run

WrappedMethods ==
    {"migrateUp", "insertLogFilterInterval", "getLogFilterIntervals",
     "insertFactoryChildAddressLogs", "getFactoryChildAddresses",
     "insertFactoryLogFilterInterval", "getFactoryLogFilterIntervals",
     "insertRealtimeBlock", "insertRealtimeInterval", "deleteRealtimeData",
     "insertRpcRequestResult", "getRpcRequestResult", "getLogEvents"}

backoffLinear(i) == BASE_DURATION * (i + 1)

\* BASE_DURATION * 2 ** i
backoff(i) == BASE_DURATION * 2 ^ i

\* wrap is entered: the loop starts with i = 0
Wrap(method) ==
    /\ storeOp.pc \in {"none", "returned", "thrown"}
    /\ storeOp.n < MaxWrapCalls
    /\ storeOp' = [storeOp EXCEPT !.method = method, !.pc = "fn", !.i = 0,
                                  !.hasError = FALSE, !.error = <<"none", 0>>,
                                  !.attempts = 0, !.waits = << >>,
                                  !.result = <<"none", 0>>, !.n = @ + 1]
    /\ UNCHANGED <<gateway, gwHist, schedVars, syncStore>>

\* fn() resolves: its result is returned
WrapFnReturns ==
    /\ storeOp.pc = "fn"
    /\ storeOp' = [storeOp EXCEPT !.pc = "returned", !.attempts = @ + 1,
                                  !.result = <<"result", storeOp.i>>]
    /\ UNCHANGED <<gateway, gwHist, schedVars, syncStore>>

\* fn() rejects with a NonRetryableError: rethrown
WrapFnThrowsNonRetryable ==
    /\ storeOp.pc = "fn"
    /\ storeOp' = [storeOp EXCEPT !.pc = "thrown", !.attempts = @ + 1,
                                  !.result = <<"NonRetryableError", storeOp.i>>]
    /\ UNCHANGED <<gateway, gwHist, schedVars, syncStore>>

\* fn() rejects with another error: the first one is kept, then either the
\* timer is set or, after the last attempt, the loop is left, the counter
\* incremented and the first error thrown
WrapFnThrows ==
    LET first == IF storeOp.hasError THEN storeOp.error ELSE <<"Error", storeOp.i>>
    IN  /\ storeOp.pc = "fn"
        /\ storeOp' =
             IF storeOp.i < RETRY_COUNT
             THEN [storeOp EXCEPT !.pc = "wait", !.attempts = @ + 1,
                                  !.hasError = TRUE, !.error = first,
                                  !.waits = Append(@, backoff(storeOp.i))]
             ELSE [storeOp EXCEPT !.pc = "thrown", !.attempts = @ + 1,
                                  !.hasError = TRUE, !.error = first,
                                  !.i = @ + 1, !.result = first,
                                  !.errorTotal = @ + 1]
        /\ UNCHANGED <<gateway, gwHist, schedVars, syncStore>>

\* the timer fires: next iteration
WrapTimeout ==
    /\ storeOp.pc = "wait"
    /\ storeOp' = [storeOp EXCEPT !.pc = "fn", !.i = @ + 1]
    /\ UNCHANGED <<gateway, gwHist, schedVars, syncStore>>

WrapInit ==
    /\ gateway = NewGateway
    /\ gwHist = NewGwHist
    /\ NewIndexingService
    /\ tableAccess = [k \in Keys |-> [reads |-> {}, writes |-> {}]]
    /\ functionMetadata = [k \in Keys |-> zeroCheckpoint]
    /\ pe = << >>
    /\ resetPc = "none"
    /\ syncStore = EmptyTables
    /\ storeOp = [method |-> "none", pc |-> "none", i |-> 0, hasError |-> FALSE,
                  error |-> <<"none", 0>>, attempts |-> 0, waits |-> << >>,
                  result |-> <<"none", 0>>, n |-> 0, errorTotal |-> 0]

WrapNext ==
    \/ \E method \in WrappedMethods : Wrap(method)
    \/ WrapFnReturns
    \/ WrapFnThrowsNonRetryable
    \/ WrapFnThrows
    \/ WrapTimeout

WrapSpec == WrapInit /\ [][WrapNext]_vars

C17_DeleteRealtimeData ==
    [][(storeOp'.method = "deleteRealtimeData" /\ storeOp'.n = storeOp.n + 1) =>
         LET chainId == storeOp'.chainId
             n == storeOp'.args[1]
             dataTables == {"blocks", "transactions", "logs", "rpcRequestResults"}
             intervalTables == {"logFilterIntervals", "factoryLogFilterIntervals"}
             blockNumber(t, r) == IF t = "blocks" THEN r.number ELSE r.blockNumber
             chainOf(t, r) == IF t = "logFilterIntervals" THEN r.logFilterId[1]
                              ELSE r.factoryId[1]
         IN  /\ \A t \in dataTables :
                  /\ \A r \in BagToSet(syncStore'[t]) :
                        r.chainId = chainId => blockNumber(t, r) <= n
                  /\ \A r \in BagToSet(syncStore[t]) :
                        (r.chainId # chainId \/ blockNumber(t, r) <= n)
                           => CopiesIn(r, syncStore'[t]) = CopiesIn(r, syncStore[t])
                  /\ \A r \in BagToSet(syncStore'[t]) : BagIn(r, syncStore[t])
             /\ \A t \in intervalTables :
                  /\ \A r \in BagToSet(syncStore'[t]) :
                        chainOf(t, r) = chainId => r.startBlock <= n /\ r.endBlock <= n
                  /\ \A r \in BagToSet(syncStore[t]) :
                        /\ chainOf(t, r) # chainId
                              => CopiesIn(r, syncStore'[t]) = CopiesIn(r, syncStore[t])
                        /\ (chainOf(t, r) = chainId /\ r.endBlock <= n)
                              => CopiesIn(r, syncStore'[t]) >= CopiesIn(r, syncStore[t])
                  /\ BagCardinality(syncStore'[t]) <= BagCardinality(syncStore[t])
             /\ syncStore'.logFilters = syncStore.logFilters
             /\ syncStore'.factories = syncStore.factories]_vars

\* deleteRealtimeData(chainId, 1) has left an interval row [1, 1] of the
\* chain that no insert wrote (block 1 of the chain was never inserted),
\* while the other chain keeps its block 2
C17_Witness ==
    /\ storeOp.method = "deleteRealtimeData"
    /\ storeOp.args[1] = 1
    /\ \E r \in BagToSet(syncStore.logFilterIntervals) :
          /\ r.logFilterId[1] = storeOp.chainId
          /\ r.startBlock = 1 /\ r.endBlock = 1
    /\ \A b \in BagToSet(syncStore.blocks) : b.chainId # storeOp.chainId
    /\ \E b \in BagToSet(syncStore.blocks) : b.chainId # storeOp.chainId /\ b.number = 2

\* C18 (amended): getLogFilterIntervals(f) returns the minimal sorted list of
\* disjoint intervals covering exactly the blocks that, for every fragment of
\* f, lie in an interval recorded for that fragment or for a stored fragment
\* of the chain that covers it (same topic0, no address).
C18_IntervalsOfCoveringFragments ==
    [][(storeOp'.method = "getLogFilterIntervals" /\ storeOp'.n = storeOp.n + 1) =>
         LET chainId == storeOp'.chainId
             logFilter == storeOp'.args[1]
             result == storeOp'.result
             addresses == IF logFilter.address = {} THEN {"null"} ELSE logFilter.address
             recorded(a) ==
                 {r \in BagToSet(syncStore.logFilterIntervals) :
                    /\ r.logFilterId[1] = chainId
                    /\ r.logFilterId[2] \in {a, "null"}
                    /\ r.logFilterId[3] = logFilter.topic0}
             synced(b) == \A a \in addresses :
                             \E r \in recorded(a) : r.startBlock <= b /\ b <= r.endBlock
         IN  /\ \A b \in 0..(MaxStoreBlock + 1) :
                  synced(b) <=> \E i \in 1..Len(result) :
                                   result[i][1] <= b /\ b <= result[i][2]
             /\ \A i \in 1..Len(result) : result[i][1] <= result[i][2]
             /\ \A i \in 1..(Len(result) - 1) : result[i][2] + 1 < result[i + 1][1]]_vars

\* a filter on addresses A and B is asked about after [1, 2] was recorded for
\* the fragment of A and [2, 2] for the fragment without address, and nothing
\* for the fragment of B: [2, 2] is returned
C18_Witness ==
    /\ storeOp.method = "getLogFilterIntervals"
    /\ storeOp.args[1].address = {"A", "B"}
    /\ storeOp.result = << <<2, 2>> >>
    /\ \E r \in BagToSet(syncStore.logFilterIntervals) :
          r = [logFilterId |-> <<storeOp.chainId, "A", "T">>, startBlock |-> 1,
               endBlock |-> 2]
    /\ \E r \in BagToSet(syncStore.logFilterIntervals) :
          r = [logFilterId |-> <<storeOp.chainId, "null", "T">>, startBlock |-> 2,
               endBlock |-> 2]
    /\ \A r \in BagToSet(syncStore.logFilterIntervals) :
          r.logFilterId # <<storeOp.chainId, "B", "T">>

\* C18 as stated: getLogFilterIntervals(f) returns exactly the intersection,
\* over the fragments of f, of the union of the intervals recorded for that
\* fragment.
C18_IntervalsOfOwnFragments ==
    [][(storeOp'.method = "getLogFilterIntervals" /\ storeOp'.n = storeOp.n + 1) =>
         LET chainId == storeOp'.chainId
             logFilter == storeOp'.args[1]
             result == storeOp'.result
             addresses == IF logFilter.address = {} THEN {"null"} ELSE logFilter.address
             recorded(a) ==
                 {r \in BagToSet(syncStore.logFilterIntervals) :
                    r.logFilterId = <<chainId, a, logFilter.topic0>>}
             synced(b) == \A a \in addresses :
                             \E r \in recorded(a) : r.startBlock <= b /\ b <= r.endBlock
         IN  /\ \A b \in 0..(MaxStoreBlock + 1) :
                  synced(b) <=> \E i \in 1..Len(result) :
                                   result[i][1] <= b /\ b <= result[i][2]
             /\ \A i \in 1..Len(result) : result[i][1] <= result[i][2]
             /\ \A i \in 1..(Len(result) - 1) : result[i][2] + 1 < result[i + 1][1]]_vars

\* C19 (amended): when an insert operation (insertLogFilterInterval,
\* insertFactoryLogFilterInterval, insertRealtimeBlock,
\* insertFactoryChildAddressLogs) is repeated with the same arguments, the
\* blocks, transactions, logs, rpcRequestResults, logFilters and factories
\* tables are as after the first insert; the interval table of an interval
\* insert gains one more copy of the interval's row for every fragment and
\* nothing else, and the other interval table is unchanged.
C19_RepeatedInsert ==
    [][(/\ storeOp'.n = storeOp.n + 1
        /\ storeOp'.method \in {"insertLogFilterInterval", "insertFactoryLogFilterInterval",
                                "insertRealtimeBlock", "insertFactoryChildAddressLogs"}
        /\ storeOp.method = storeOp'.method
        /\ storeOp.chainId = storeOp'.chainId
        /\ storeOp.args = storeOp'.args) =>
         LET chainId == storeOp'.chainId
             method == storeOp'.method
             args == storeOp'.args
             appended ==
                 IF method = "insertLogFilterInterval"
                 THEN SetToBag({[logFilterId |-> <<chainId, a, args[1].topic0>>,
                                 startBlock |-> args[3][1], endBlock |-> args[3][2]] :
                                   a \in IF args[1].address = {} THEN {"null"}
                                         ELSE args[1].address})
                 ELSE EmptyBag
             appendedFactory ==
                 IF method = "insertFactoryLogFilterInterval"
                 THEN SetToBag({[factoryId |-> <<chainId, args[1].address,
                                                 args[1].eventSelector,
                                                 args[1].childAddressLocation>>,
                                 startBlock |-> args[3][1], endBlock |-> args[3][2]]})
                 ELSE EmptyBag
         IN  /\ \A t \in {"blocks", "transactions", "logs", "rpcRequestResults",
                          "logFilters", "factories"} : syncStore'[t] = syncStore[t]
             /\ syncStore'.logFilterIntervals = syncStore.logFilterIntervals (+) appended
             /\ syncStore'.factoryLogFilterIntervals =
                   syncStore.factoryLogFilterIntervals (+) appendedFactory]_vars

\* insertLogFilterInterval has run twice with the same block, log and
\* interval for the filter on address A: one block, one log, and two copies
\* of the one interval row
C19_Witness ==
    /\ storeOp.method = "insertLogFilterInterval"
    /\ storeOp.n = 2
    /\ storeOp.args[1].address = {"A"}
    /\ BagCardinality(syncStore.blocks) = 1
    /\ BagCardinality(syncStore.logs) = 1
    /\ Cardinality(storeOp.args[2].logs) = 1
    /\ BagCardinality(syncStore.logFilterIntervals) = 2
    /\ Cardinality(BagToSet(syncStore.logFilterIntervals)) = 1

\* C19 as stated: inserting the same batch twice through an insert operation
\* leaves the store identical to inserting it once.
C19_RepeatedInsertIdentical ==
    [][(/\ storeOp'.n = storeOp.n + 1
        /\ storeOp'.method \in {"insertLogFilterInterval", "insertFactoryLogFilterInterval",
                                "insertRealtimeBlock", "insertFactoryChildAddressLogs"}
        /\ storeOp.method = storeOp'.method
        /\ storeOp.chainId = storeOp'.chainId
        /\ storeOp.args = storeOp'.args) => syncStore' = syncStore]_vars

\* C20: an operation is attempted at most 4 times, with waits of 100, 200
\* and 400 ms before the 2nd, 3rd and 4th attempt; it returns the result of
\* the first attempt that succeeds; a NonRetryableError is rethrown by the
\* attempt that raised it, with no further attempt; after 4 failed attempts
\* an error is thrown, and the terminal-error counter goes up by one then and
\* at no other step.
C20_RetryEnvelope ==
    /\ [](/\ storeOp.attempts <= 4
          /\ storeOp.waits = SubSeq(<<100, 200, 400>>, 1, Len(storeOp.waits))
          /\ storeOp.pc \in {"fn", "wait"} => Len(storeOp.waits) = storeOp.attempts
          /\ storeOp.pc = "fn" => storeOp.i = storeOp.attempts
          /\ storeOp.pc = "returned" =>
                /\ storeOp.result = <<"result", storeOp.attempts - 1>>
                /\ Len(storeOp.waits) = storeOp.attempts - 1
          /\ storeOp.pc = "thrown" =>
                \/ /\ storeOp.result = <<"NonRetryableError", storeOp.attempts - 1>>
                   /\ Len(storeOp.waits) = storeOp.attempts - 1
                \/ /\ storeOp.result[1] = "Error"
                   /\ storeOp.attempts = 4
                   /\ storeOp.waits = <<100, 200, 400>>)
    /\ [][/\ storeOp.pc \in {"returned", "thrown"} => storeOp'.pc = "fn"
          /\ storeOp'.errorTotal =
                IF storeOp'.pc = "thrown" /\ storeOp.pc = "fn"
                   /\ storeOp'.result[1] = "Error"
                THEN storeOp.errorTotal + 1
                ELSE storeOp.errorTotal]_vars

\* two operations have each failed four times: three waits, the counter at 2
C20_Witness ==
    /\ storeOp.pc = "thrown"
    /\ storeOp.result[1] = "Error"
    /\ storeOp.attempts = 4
    /\ storeOp.waits = <<100, 200, 400>>
    /\ storeOp.n = 2
    /\ storeOp.errorTotal = 2

(***************************************************************************)
(* getFactoryChildAddresses: an async generator; each iteration of its     *)
(* loop runs one query and yields one page.                                *)
(***************************************************************************)
MaxPageSize == 2        \* page sizes 1..MaxPageSize

\* '0x' || substring(topic from 2 + 12 * 2 + 1 for 20 * 2)
buildFactoryChildAddressSelectExpression(row, childAddressLocation) ==
    <<"0", "x">> \o SubSeq(row[childAddressLocation], 2 + 12 * 2 + 1,
                            2 + 12 * 2 + 20 * 2)

\* `if (cursor)`: undefined and 0n are both falsy
truthy(cursor) == cursor # << >> /\ cursor[1] # 0

\* the rows baseQuery selects once the cursor condition is added
childAddressRows(db, chainId, upToBlockNumber, factory, cursor) ==
    {row \in BagToSet(db.logs) :
        /\ row.chainId = chainId
        /\ row.address = factory.address
        /\ row.topic0 = factory.eventSelector
        /\ row.blockNumber <= upToBlockNumber
        /\ truthy(cursor) => row.blockNumber > cursor[1]}

\* the query has no orderBy: .limit(pageSize) returns any pageSize of the
\* rows, in any order
RECURSIVE Arrangements(_, _)
Arrangements(rows, n) ==
    IF n = 0 \/ rows = {} THEN {<< >>}
    ELSE UNION {{<<row>> \o rest : rest \in Arrangements(rows \ {row}, n - 1)} :
                  row \in rows}

\* the generator is called: nothing runs until the first page is asked for
GetFactoryChildAddresses(chainId, upToBlockNumber, pageSize) ==
    /\ storeOp = NoStoreCall
    /\ storeOp' = [method |-> "getFactoryChildAddresses", chainId |-> chainId,
                   args |-> <<upToBlockNumber, Factory, pageSize>>,
                   pc |-> "query", cursor |-> << >>, result |-> << >>, n |-> 1]
    /\ UNCHANGED <<gateway, gwHist, schedVars, syncStore>>

\* one iteration of the loop
GetFactoryChildAddressesPage ==
    /\ storeOp.method = "getFactoryChildAddresses"
    /\ storeOp.pc = "query"
    /\ LET pageSize == storeOp.args[3]
           factory == storeOp.args[2]
       IN \E batch \in Arrangements(childAddressRows(syncStore, storeOp.chainId,
                                        storeOp.args[1], factory, storeOp.cursor),
                                    pageSize) :
             storeOp' = [storeOp EXCEPT
                 !.cursor = IF Len(batch) > 0 THEN <<batch[Len(batch)].blockNumber>>
                            ELSE @,
                 !.result = IF Len(batch) > 0
                            THEN Append(@, [k \in 1..Len(batch) |->
                                     buildFactoryChildAddressSelectExpression(
                                         batch[k], factory.childAddressLocation)])
                            ELSE @,
                 !.pc = IF Len(batch) < pageSize THEN "done" ELSE "query"]
    /\ UNCHANGED <<gateway, gwHist, schedVars, syncStore>>

\* the logs tables insertFactoryChildAddressLogs leaves: any of the factory's
\* logs of chain 1, a log of the factory on the other chain, a log of
\* another contract
ChildStores ==
    {insertFactoryChildAddressLogs(
         insertFactoryChildAddressLogs(EmptyTables, 10, {RpcFactoryLog(10, 1, 0)}),
         1, logs \cup {RpcLog(1, 1, 0)}) :
       logs \in SUBSET {RpcFactoryLog(1, n, i) : n \in StoreBlockNumbers, i \in LogIndexes}}

ChildInit ==
    /\ gateway = NewGateway
    /\ gwHist = NewGwHist
    /\ NewIndexingService
    /\ tableAccess = [k \in Keys |-> [reads |-> {}, writes |-> {}]]
    /\ functionMetadata = [k \in Keys |-> zeroCheckpoint]
    /\ pe = << >>
    /\ resetPc = "none"
    /\ syncStore \in ChildStores
    /\ storeOp = NoStoreCall

ChildNext ==
    \/ \E upToBlockNumber \in StoreBlockNumbers, pageSize \in 1..MaxPageSize :
          GetFactoryChildAddresses(1, upToBlockNumber, pageSize)
    \/ GetFactoryChildAddressesPage

ChildSpec == ChildInit /\ [][ChildNext]_vars

\* C21: when getFactoryChildAddresses has finished, the pages hold the child
\* address of every log of the factory with topic0 = eventSelector and
\* blockNumber <= upToBlockNumber exactly once, in ascending order of block
\* number.
C21_EveryChildAddressOnce ==
    (storeOp.method = "getFactoryChildAddresses" /\ storeOp.pc = "done") =>
        LET matching == {l \in BagToSet(syncStore.logs) :
                            /\ l.chainId = storeOp.chainId
                            /\ l.address = "F" /\ l.topic0 = "S"
                            /\ l.blockNumber <= storeOp.args[1]}
            yielded == {<<p, k>> : p \in 1..Len(storeOp.result), k \in 1..MaxPageSize}
            at(x) == storeOp.result[x[1]][x[2]]
            slots == {x \in yielded : x[2] <= Len(storeOp.result[x[1]])}
            blockOf(x) == (CHOOSE l \in BagToSet(syncStore.logs) :
                              SubSeq(l.topic1, 27, 66) = SubSeq(at(x), 3, 42)).blockNumber
        IN  /\ \A l \in matching :
                  Cardinality({x \in slots : SubSeq(at(x), 3, 42) = SubSeq(l.topic1, 27, 66)})
                     = 1
            /\ Cardinality(slots) = Cardinality(matching)
            /\ \A x, y \in slots :
                  (x[1] < y[1] \/ (x[1] = y[1] /\ x[2] < y[2])) => blockOf(x) <= blockOf(y)

\* C22: once kill has been called isPaused stays true, the queue is not
\* started again and no task starts, whatever was in progress when kill was
\* called (a processEvents, a task, a callback of the flush timer).
C22_PausedAfterKill ==
    hist.killed =>
        /\ isPaused
        /\ ~queue.started
        /\ queue.pending = << >>

(***************************************************************************)
(* The SQLite bigint encoding (encodeAsText / decodeToBigInt), with the    *)
(* EVM word scaled from 256 bits to EvmBits: a text is a sequence of       *)
(* characters.                                                             *)
(***************************************************************************)
EvmBits == 8            \* width of the EVM word

EVM_MAX_UINT == 2 ^ EvmBits - 1

EVM_MIN_INT == 0 - 2 ^ (EvmBits - 1)

DigitChars == <<"0", "1", "2", "3", "4", "5", "6", "7", "8", "9">>

\* value.toString(10) of a value >= 0
RECURSIVE toString(_)
toString(value) ==
    IF value < 10 THEN <<DigitChars[value + 1]>>
    ELSE Append(toString(value \div 10), DigitChars[(value % 10) + 1])

\* the width the digits are padded to: that of EVM_MAX_UINT (78 for 256 bits)
PadWidth == Len(toString(EVM_MAX_UINT))

padEnd(chars, width) ==
    IF Len(chars) >= width THEN chars
    ELSE chars \o [k \in 1..(width - Len(chars)) |-> "0"]

\* chars.padStart(width, "0")
padStart(chars, width) ==
    IF Len(chars) >= width THEN chars
    ELSE [k \in 1..(width - Len(chars)) |-> "0"] \o chars

encodeAsText(value) ==
    LET signChar == IF value >= 0 THEN "0" ELSE "-"
        shifted == IF value < 0 THEN value - EVM_MIN_INT ELSE value
    IN  <<signChar>> \o padStart(toString(shifted), PadWidth)

\* text.replace(/^0+/, "")
RECURSIVE stripZeros(_)
stripZeros(chars) ==
    IF chars # << >> /\ Head(chars) = "0" THEN stripZeros(Tail(chars)) ELSE chars

\* BigInt(chars)
RECURSIVE parseDigits(_)
parseDigits(chars) ==
    IF chars = << >> THEN 0
    ELSE 10 * parseDigits(SubSeq(chars, 1, Len(chars) - 1))
         + (CHOOSE d \in 0..9 : DigitChars[d + 1] = chars[Len(chars)])

decodeToBigInt(text) ==
    LET signChar == text[1]
        stripped == stripZeros(Tail(text))
        valueChars == IF Len(stripped) = 0 THEN <<"0">> ELSE stripped
        value == parseDigits(valueChars)
    IN  IF signChar = "-" THEN value + EVM_MIN_INT ELSE value

\* the byte of a character of an encoded text
charCode(c) == IF c = "-" THEN 45 ELSE 48 + parseDigits(<<c>>)

\* memcmp order of two texts: at the first difference the smaller byte
\* decides, and a proper prefix precedes
memcmpLess(s, t) ==
    \E k \in 1..Len(t) :
        /\ \A j \in 1..(k - 1) : j <= Len(s) /\ s[j] = t[j]
        /\ \/ k = Len(s) + 1
           \/ k <= Len(s) /\ charCode(s[k]) < charCode(t[k])

EncodableRange == EVM_MIN_INT..EVM_MAX_UINT

\* encodeAsText(value): the text is kept next to the one before it
EncodeAsText(value) ==
    /\ storeOp.n < 2
    /\ storeOp' = [method |-> "encodeAsText", n |-> storeOp.n + 1,
                   values |-> Append(storeOp.values, value),
                   texts |-> Append(storeOp.texts, encodeAsText(value)),
                   decoded |-> << >>]
    /\ UNCHANGED <<gateway, gwHist, schedVars, syncStore>>

\* decodeToBigInt of the texts
DecodeToBigInt ==
    /\ storeOp.method = "encodeAsText"
    /\ storeOp' = [storeOp EXCEPT
                     !.method = "decodeToBigInt",
                     !.decoded = [k \in 1..Len(storeOp.texts) |->
                                     decodeToBigInt(storeOp.texts[k])]]
    /\ UNCHANGED <<gateway, gwHist, schedVars, syncStore>>

EncodeInit ==
    /\ gateway = NewGateway
    /\ gwHist = NewGwHist
    /\ NewIndexingService
    /\ tableAccess = [k \in Keys |-> [reads |-> {}, writes |-> {}]]
    /\ functionMetadata = [k \in Keys |-> zeroCheckpoint]
    /\ pe = << >>
    /\ resetPc = "none"
    /\ syncStore = EmptyTables
    /\ storeOp = [method |-> "none", n |-> 0, values |-> << >>, texts |-> << >>,
                  decoded |-> << >>]

EncodeNext ==
    \/ \E value \in EncodableRange : EncodeAsText(value)
    \/ DecodeToBigInt

EncodeSpec == EncodeInit /\ [][EncodeNext]_vars

\* C23: decodeToBigInt(encodeAsText(v)) = v for every v from EVM_MIN_INT to
\* EVM_MAX_UINT.
C23_DecodeInvertsEncode ==
    storeOp.method = "decodeToBigInt" =>
        /\ Len(storeOp.decoded) = Len(storeOp.values)
        /\ \A k \in 1..Len(storeOp.values) : storeOp.decoded[k] = storeOp.values[k]

\* both ends of the range, one negative and one not, have been encoded and
\* decoded
C23_Witness ==
    /\ storeOp.method = "decodeToBigInt"
    /\ storeOp.values = <<EVM_MIN_INT, EVM_MAX_UINT>>
    /\ storeOp.decoded = <<EVM_MIN_INT, EVM_MAX_UINT>>
    /\ storeOp.texts[1][1] = "-"
    /\ Len(storeOp.texts[2]) = PadWidth + 1

\* C24: a < b exactly when encodeAsText(a) precedes encodeAsText(b) in
\* byte order, for all a and b in the encodable range.
C24_EncodingKeepsOrder ==
    Len(storeOp.texts) = 2 =>
        (storeOp.values[1] < storeOp.values[2]
            <=> memcmpLess(storeOp.texts[1], storeOp.texts[2]))

\* two negative values whose shifted digits differ in length
C24_Witness ==
    /\ Len(storeOp.texts) = 2
    /\ storeOp.values[1] < storeOp.values[2]
    /\ storeOp.values[2] < 0
    /\ storeOp.values[1] - EVM_MIN_INT < 10
    /\ storeOp.values[2] - EVM_MIN_INT >= 10
    /\ memcmpLess(storeOp.texts[1], storeOp.texts[2])


(***************************************************************************)
(* Dispatch Case 4 of enqueueLogEventTasks.                                *)
(***************************************************************************)
\* the flow whose enqueueLogEventTasks call this step is
enqueueStepOf(f) ==
    \/ /\ f[1] = "pe"
       /\ pe[f[2]].pc = "enqueue"
       /\ pe'[f[2]].pc = "none"
    \/ /\ f[1] = "task"
       /\ f[2] \in DOMAIN workers
       /\ workers[f[2]].pc = "enqueue"
       /\ \/ f[2] \notin DOMAIN workers'
          \/ workers'[f[2]].pc # "enqueue"

\* how many tasks of key k and checkpoint c the queue holds, waiting or running
queuedTasks(q, w, k, c) ==
    Cardinality({i \in DOMAIN q.pending :
                    q.pending[i].key = k /\ q.pending[i].checkpoint = c})
    + Cardinality({s \in DOMAIN w : w[s].task.key = k /\ w[s].task.checkpoint = c})

\* C25: for a function with parents that is not self-dependent, a dispatch
\* pass (while not paused) hands to the queue exactly the longest prefix of
\* loadedTasks whose checkpoints are at most the minimum of its parents'
\* tasksLoadedFromCheckpoint, removes exactly those tasks from the buffer and
\* keeps the others buffered in their order.
C25_Case4DispatchesPrefix ==
    [][ \A f \in Flows :
          (enqueueStepOf(f) /\ ~isPaused) =>
             \A k \in DOMAIN indexingFunctionStates :
                LET state == indexingFunctionStates[k]
                    tasks == state.loadedTasks
                    limit == checkpointMin({indexingFunctionStates[p].tasksLoadedFromCheckpoint :
                                               p \in state.parents})
                    atMost(i) == tasks[i].checkpoint = limit
                                 \/ isCheckpointGreaterThan(limit, tasks[i].checkpoint)
                    n == Cardinality({i \in 1..Len(tasks) : \A j \in 1..i : atMost(j)})
                    before == IF f[1] = "task" THEN Without(workers, f[2]) ELSE workers
                IN  (state.parents # {} /\ ~state.isSelfDependent) =>
                       /\ indexingFunctionStates'[k].loadedTasks = SubSeq(tasks, n + 1, Len(tasks))
                       /\ \A c \in {tasks[i].checkpoint : i \in 1..Len(tasks)} :
                             queuedTasks(queue', workers', k, c)
                                = queuedTasks(queue, before, k, c)
                                  + Cardinality({i \in 1..n : tasks[i].checkpoint = c}) ]_vars

\* a Case-4 function with one task handed over and a later task held back
C25_Witness ==
    \E k \in DOMAIN indexingFunctionStates :
       LET state == indexingFunctionStates[k]
           limit == checkpointMin({indexingFunctionStates[p].tasksLoadedFromCheckpoint :
                                      p \in state.parents})
       IN  /\ state.parents # {}
           /\ ~state.isSelfDependent
           /\ ~isPaused
           /\ state.loadedTasks # << >>
           /\ isCheckpointGreaterThan(state.loadedTasks[1].checkpoint, limit)
           /\ \E s \in DOMAIN workers :
                 /\ workers[s].task.key = k
                 /\ workers[s].pc = "exec"
                 /\ ~isCheckpointGreaterThan(workers[s].task.checkpoint, limit)
                 /\ isCheckpointGreaterThan(state.loadedTasks[1].checkpoint,
                                            workers[s].task.checkpoint)


(***************************************************************************)
(* Tasks that outlive a reorg.  handleReorg clamps the three checkpoints   *)
(* of every function and touches neither loadedTasks nor the queue: while  *)
(* a function's tasksLoadedToCheckpoint is at most the safe checkpoint     *)
(* nothing above it has been loaded again, so a task of that function above*)
(* the safe checkpoint was loaded before the reorg.                        *)
(***************************************************************************)
revertedTo(safeCheckpoint) ==
    /\ hist.reverts = 1
    /\ reorg.pc \in {"processEvents", "none"}
    /\ reorg.safeCheckpoint = safeCheckpoint

loadedBeforeReorg(task) ==
    /\ task.key \in DOMAIN indexingFunctionStates
    /\ revertedTo(reorg.safeCheckpoint)
    /\ isCheckpointGreaterThan(task.checkpoint, reorg.safeCheckpoint)
    /\ ~isCheckpointGreaterThan(
           indexingFunctionStates[task.key].tasksLoadedToCheckpoint,
           reorg.safeCheckpoint)

\* C26: once handleReorg has returned having reverted the store, a task that
\* was loaded before the reorg with a checkpoint above the safe checkpoint
\* does not return from its indexing function and is not counted in
\* tasksProcessedToCheckpoint.
C26_NoTaskFromBeforeReorgRuns ==
    [][ \A s \in DOMAIN workers :
          (workers[s].pc = "exec" /\ loadedBeforeReorg(workers[s].task)) =>
             /\ s \in DOMAIN workers' => workers'[s].pc # "waitMutex"
             /\ ~isCheckpointGreaterThan(
                    indexingFunctionStates'[workers[s].task.key].tasksProcessedToCheckpoint,
                    reorg.safeCheckpoint) ]_vars


(***************************************************************************)
(* What flush persists.                                                    *)
(***************************************************************************)
\* the step in which flush builds its rows: in reset, in the timer's
\* callback, in kill
flushStep ==
    \/ resetPc = "waitIdle" /\ resetPc' = "flush"
    \/ flushInterval = "waitIdle" /\ flushInterval' = "flush"
    \/ ~hist.killed /\ hist'.killed

\* C27: flush persists for each function toCheckpoint = min(stateCheckpoint,
\* finalityCheckpoint of the gateway), stateCheckpoint being
\* tasksLoadedToCheckpoint when loadedTasks is empty and
\* tasksProcessedToCheckpoint otherwise; a function whose toCheckpoint is
\* zeroCheckpoint gets no row; no row written exceeds the finalityCheckpoint;
\* and nothing but flush writes the rows.
C27_FlushPersistsMin ==
    [][ /\ functionMetadata' # functionMetadata => flushStep
        /\ flushStep =>
             \A k \in DOMAIN indexingFunctionStates :
                LET state == indexingFunctionStates[k]
                    finality == gateway.finalityCheckpoint
                    stateCheckpoint == IF Len(state.loadedTasks) = 0
                                       THEN state.tasksLoadedToCheckpoint
                                       ELSE state.tasksProcessedToCheckpoint
                    toCheckpoint == IF isCheckpointGreaterThan(stateCheckpoint, finality)
                                    THEN finality ELSE stateCheckpoint
                IN  IF toCheckpoint = zeroCheckpoint
                    THEN functionMetadata'[k] = functionMetadata[k]
                    ELSE /\ functionMetadata'[k] = toCheckpoint
                         /\ ~isCheckpointGreaterThan(functionMetadata'[k], finality) ]_vars

\* after a flush: one function's row is the finality checkpoint, below its
\* state checkpoint, and one function with buffered tasks has the row of
\* its tasksProcessedToCheckpoint
C27_Witness ==
    /\ hist.flushed
    /\ gateway.finalityCheckpoint # zeroCheckpoint
    /\ \E k \in DOMAIN indexingFunctionStates :
          /\ functionMetadata[k] = gateway.finalityCheckpoint
          /\ isCheckpointGreaterThan(getStateCheckpoint(indexingFunctionStates, k),
                                     gateway.finalityCheckpoint)
    /\ \E k \in DOMAIN indexingFunctionStates :
          /\ indexingFunctionStates[k].loadedTasks # << >>
          /\ functionMetadata[k] = indexingFunctionStates[k].tasksProcessedToCheckpoint
          /\ functionMetadata[k] # zeroCheckpoint
          /\ isCheckpointGreaterThan(indexingFunctionStates[k].tasksLoadedToCheckpoint,
                                     functionMetadata[k])


(***************************************************************************)
(* The pages of getLogEvents.                                              *)
(***************************************************************************)
\* C28: getLogEvents with limit L has hasNextPage = true exactly when more
\* than L matching events lie in the window (fromCheckpoint, toCheckpoint];
\* it then returns the L smallest of them and lastCheckpointInPage is the
\* checkpoint of the last one returned; otherwise it returns all of them;
\* lastCheckpoint is the checkpoint of the greatest matching event of the
\* window, undefined exactly when there is none, and is not below
\* lastCheckpointInPage.  The store holds at most one block per chain and
\* block number.
C28_PageOfLimitEvents ==
    storeOp.method = "getLogEvents" =>
        LET fromCheckpoint == storeOp.args[1]
            toCheckpoint == storeOp.args[2]
            L == storeOp.args[3]
            sources == storeOp.args[4]
            r == storeOp.result
            at(i) == Cp(r.events[i].block.timestamp, r.events[i].chainId,
                        r.events[i].block.number, r.events[i].log.logIndex)
            block(c) == Cp(c.blockTimestamp, c.chainId, c.blockNumber, 0)
            inWindow(c) ==
                /\ IF fromCheckpoint.logIndex = undefinedLogIndex
                   THEN isCheckpointGreaterThan(block(c), block(fromCheckpoint))
                   ELSE isCheckpointGreaterThan(c, fromCheckpoint)
                /\ IF toCheckpoint.logIndex = undefinedLogIndex
                   THEN ~isCheckpointGreaterThan(block(c), block(toCheckpoint))
                   ELSE ~isCheckpointGreaterThan(c, toCheckpoint)
            matching ==
                {c \in {Cp(p[2].timestamp, p[1].chainId, p[2].number, p[1].logIndex) :
                           p \in {q \in BagToSet(syncStore.logs) \X BagToSet(syncStore.blocks) :
                                    /\ q[2].hash = q[1].blockHash
                                    /\ \E s \in sources :
                                          /\ q[1].chainId = s.chainId
                                          /\ s.criteria.address = {}
                                                \/ q[1].address \in s.criteria.address
                                          /\ q[1].topic0 = s.eventSelector}} :
                    inWindow(c)}
            smallest == {c \in matching :
                            Cardinality({d \in matching : isCheckpointGreaterThan(c, d)}) < L}
            returned == {at(i) : i \in 1..Len(r.events)}
        IN  /\ r.hasNextPage <=> Cardinality(matching) > L
            /\ r.hasNextPage =>
                  /\ Len(r.events) = L
                  /\ returned = smallest
                  /\ r.lastCheckpointInPage = at(L)
                  /\ ~isCheckpointGreaterThan(r.lastCheckpointInPage, r.lastCheckpoint)
            /\ ~r.hasNextPage =>
                  /\ Len(r.events) = Cardinality(matching)
                  /\ returned = matching
            /\ r.lastCheckpoint = undefinedCheckpoint <=> matching = {}
            /\ matching # {} =>
                  /\ r.lastCheckpoint \in matching
                  /\ \A d \in matching : ~isCheckpointGreaterThan(d, r.lastCheckpoint)

\* a page of one event cut from three or more matching events of the window
C28_Witness ==
    /\ storeOp.method = "getLogEvents"
    /\ storeOp.args[3] = 1
    /\ storeOp.result.hasNextPage
    /\ Len(storeOp.result.events) = 1
    /\ isCheckpointGreaterThan(storeOp.result.lastCheckpoint,
                               storeOp.result.lastCheckpointInPage)
    /\ storeOp.args[1] # zeroCheckpoint
    /\ \E l \in BagToSet(syncStore.logs) :
          /\ l.chainId = storeOp.result.events[1].chainId
          /\ l.blockNumber = storeOp.result.events[1].block.number
          /\ l.logIndex < storeOp.result.events[1].log.logIndex


(***************************************************************************)
(* Every event loaded once.  A task is not removed from loadedTasks but by *)
(* enqueueLogEventTasks, which hands it to the queue; the queue hands it   *)
(* to a worker, and the worker's function returns: an event that was       *)
(* appended once is in exactly one of these places.                        *)
(***************************************************************************)
\* the copies of the event e of key k that wait in the buffer, wait in the
\* queue or run
copiesOf(k, e) ==
    Cardinality({i \in 1..Len(indexingFunctionStates[k].loadedTasks) :
                    indexingFunctionStates[k].loadedTasks[i].checkpoint = e})
    + Cardinality({i \in DOMAIN queue.pending :
                      queue.pending[i].key = k /\ queue.pending[i].checkpoint = e})
    + Cardinality({s \in DOMAIN workers :
                      /\ workers[s].pc = "exec"
                      /\ workers[s].task.key = k
                      /\ workers[s].task.checkpoint = e})

\* C29: without reorgs and resets, every matching event above the seeded
\* checkpoint and at or below tasksLoadedToCheckpoint (which the loads move up
\* to the gateway's checkpoint) has been appended to loadedTasks exactly once:
\* never twice, and never not at all.
C29_EveryEventLoadedOnce ==
    (hist.reorgs = 0 /\ resetPc = "none") =>
        \A k \in DOMAIN indexingFunctionStates :
           \A e \in StoreEvents(k) :
              (/\ isCheckpointGreaterThan(e, functionMetadata[k])
               /\ ~isCheckpointGreaterThan(e, indexingFunctionStates[k].tasksLoadedToCheckpoint))
                 => /\ copiesOf(k, e) <= 1
                    /\ copiesOf(k, e) = 0 <=> e \in hist.done[k]


(***************************************************************************)
(* intervalUnion on the list of intervals a fragment's rows give, in the   *)
(* order the database returns them, and the merge getLogFilterIntervals    *)
(* starts with.  Block numbers are below 2^53, where Number and BigInt     *)
(* convert exactly.                                                        *)
(***************************************************************************)
MaxIntervalRows == 3

MaxUnionBlock == 3

UnionIntervals == {<<s, e>> \in (1..MaxUnionBlock) \X (1..MaxUnionBlock) : s <= e}

RECURSIVE SeqsUpTo(_, _)
SeqsUpTo(S, n) ==
    IF n = 0 THEN {<< >>}
    ELSE LET shorter == SeqsUpTo(S, n - 1)
         IN shorter \cup {Append(xs, x) : xs \in shorter, x \in S}

IntervalLists == SeqsUpTo(UnionIntervals, MaxIntervalRows)

\* intervals.sort((a, b) => a[0] - b[0]): by start, stable
RECURSIVE sortByStart(_)
sortByStart(xs) ==
    IF xs = << >> THEN << >>
    ELSE LET rest == sortByStart(Tail(xs))
             x == Head(xs)
             k == Cardinality({i \in 1..Len(rest) : rest[i][1] < x[1]})
         IN SubSeq(rest, 1, k) \o <<x>> \o SubSeq(rest, k + 1, Len(rest))

intervalUnionList(xs) == mergeSorted(sortByStart(xs))

UnionFragment(address) ==
    CHOOSE f \in buildLogFilterFragments(LogFilter({address}), 1) : TRUE

RECURSIVE insertIntervals(_, _, _)
insertIntervals(db, fragments, xs) ==
    IF xs = << >> THEN db
    ELSE insertIntervals(insertLogFilterIntervalRows(db, fragments, Head(xs)),
                         fragments, Tail(xs))

\* the rows of fragment A from up to MaxIntervalRows inserts, and at most
\* one row of fragment B
UnionStores ==
    {insertIntervals(insertIntervals(EmptyTables, {UnionFragment("A")}, xs),
                     {UnionFragment("B")}, ys) :
        xs \in IntervalLists, ys \in SeqsUpTo(UnionIntervals, 1)}

\* the rows of a fragment as the list xs, in some order
rowsInSomeOrder(db, fragment, xs) ==
    \A iv \in UnionIntervals :
       Cardinality({i \in 1..Len(xs) : xs[i] = iv})
          = CopiesIn([logFilterId |-> fragment.id, startBlock |-> iv[1],
                      endBlock |-> iv[2]], db.logFilterIntervals)

IntervalUnion(xs) ==
    /\ storeOp = NoStoreCall
    /\ rowsInSomeOrder(syncStore, UnionFragment("A"), xs)
    /\ storeOp' = [method |-> "intervalUnion", chainId |-> 0, args |-> <<xs>>,
                   result |-> intervalUnionList(xs), n |-> 1]
    /\ UNCHANGED <<gateway, gwHist, schedVars, syncStore>>

UnionInit ==
    /\ gateway = NewGateway
    /\ gwHist = NewGwHist
    /\ NewIndexingService
    /\ tableAccess = [k \in Keys |-> [reads |-> {}, writes |-> {}]]
    /\ functionMetadata = [k \in Keys |-> zeroCheckpoint]
    /\ pe = << >>
    /\ resetPc = "none"
    /\ syncStore \in UnionStores
    /\ storeOp = NoStoreCall

UnionNext ==
    \/ \E xs \in IntervalLists : IntervalUnion(xs)
    \/ \E logFilter \in {LogFilter({"A"}), LogFilter({"A", "B"})} :
          storeOp = NoStoreCall /\ GetLogFilterIntervals(1, logFilter)

UnionSpec == UnionInit /\ [][UnionNext]_vars

\* the block numbers a list of intervals covers
blocksOf(xs) == {n \in 0..(MaxUnionBlock + 1) : \E i \in 1..Len(xs) : xs[i][1] <= n /\ n <= xs[i][2]}

\* the block numbers the interval rows of a fragment record as synced
syncedBlocks(db, logFilterId) ==
    {n \in 0..(MaxUnionBlock + 1) :
        \E r \in BagToSet(db.logFilterIntervals) :
           r.logFilterId = logFilterId /\ r.startBlock <= n /\ n <= r.endBlock}

\* C30: intervalUnion is idempotent, gives the same list whatever the order
\* of its input, and its result is sorted, pairwise disjoint and covers
\* exactly the blocks the input covers; and the merge getLogFilterIntervals
\* starts with (delete the fragment's rows, intervalUnion, insert) leaves the
\* set of blocks recorded as synced as it was, for every fragment.
C30_UnionAndCompaction ==
    /\ [](storeOp.method = "intervalUnion" =>
            LET xs == storeOp.args[1]
                r == storeOp.result
            IN  /\ intervalUnionList(r) = r
                /\ \A p \in {q \in [1..Len(xs) -> 1..Len(xs)] :
                               \A i, j \in 1..Len(xs) : q[i] = q[j] => i = j} :
                      intervalUnionList([i \in 1..Len(xs) |-> xs[p[i]]]) = r
                /\ r = intervalUnion(Range(xs))
                /\ \A i \in 1..Len(r) : r[i][1] <= r[i][2]
                /\ \A i, j \in 1..Len(r) : i < j => r[i][2] < r[j][1]
                /\ blocksOf(r) = blocksOf(xs))
    /\ [][storeOp'.method = "getLogFilterIntervals" =>
            \A r \in BagToSet(syncStore.logFilterIntervals)
                       \cup BagToSet(syncStore'.logFilterIntervals) :
               syncedBlocks(syncStore', r.logFilterId)
                  = syncedBlocks(syncStore, r.logFilterId)]_vars

\* a union of three rows given out of order that merged two of them, with
\* a gap to the third
C30_Witness ==
    /\ storeOp.method = "intervalUnion"
    /\ Len(storeOp.args[1]) = 3
    /\ storeOp.args[1][1][1] > storeOp.args[1][2][1]
    /\ Len(storeOp.result) = 2


(***************************************************************************)
(* The page loop of getFactoryChildAddresses as the generator itself holds *)
(* it: the cursor and the page it yields, not the pages its caller has     *)
(* collected.  The logs table may hold logs of block 0.                    *)
(***************************************************************************)
ChildBlockNumbers == 0..MaxStoreBlock

ChildLoopStores ==
    {insertFactoryChildAddressLogs(EmptyTables, 1, logs \cup {RpcLog(1, 1, 0)}) :
       logs \in SUBSET {RpcFactoryLog(1, n, i) : n \in ChildBlockNumbers, i \in LogIndexes}}

\* one iteration of the loop up to its yield: the query, the cursor, and the
\* page, which replaces the one yielded before; an empty page is not yielded
\* and, as pageSize >= 1, ends the loop
GetFactoryChildAddressesYield ==
    /\ storeOp.method = "getFactoryChildAddresses"
    /\ storeOp.pc = "query"
    /\ LET pageSize == storeOp.args[3]
           factory == storeOp.args[2]
       IN \E batch \in Arrangements(childAddressRows(syncStore, storeOp.chainId,
                                        storeOp.args[1], factory, storeOp.cursor),
                                    pageSize) :
             storeOp' = [storeOp EXCEPT
                 !.cursor = IF Len(batch) > 0 THEN <<batch[Len(batch)].blockNumber>>
                            ELSE @,
                 !.result = [k \in 1..Len(batch) |->
                                buildFactoryChildAddressSelectExpression(
                                    batch[k], factory.childAddressLocation)],
                 !.pc = IF Len(batch) > 0 THEN "yield" ELSE "done"]
    /\ UNCHANGED <<gateway, gwHist, schedVars, syncStore>>

\* the caller asks for the next page: the generator resumes after its yield
\* and breaks if the page it yielded was short
GetFactoryChildAddressesResume ==
    /\ storeOp.method = "getFactoryChildAddresses"
    /\ storeOp.pc = "yield"
    /\ storeOp' = [storeOp EXCEPT
          !.pc = IF Len(storeOp.result) < storeOp.args[3] THEN "done" ELSE "query"]
    /\ UNCHANGED <<gateway, gwHist, schedVars, syncStore>>

ChildLoopInit ==
    /\ gateway = NewGateway
    /\ gwHist = NewGwHist
    /\ NewIndexingService
    /\ tableAccess = [k \in Keys |-> [reads |-> {}, writes |-> {}]]
    /\ functionMetadata = [k \in Keys |-> zeroCheckpoint]
    /\ pe = << >>
    /\ resetPc = "none"
    /\ syncStore \in ChildLoopStores
    /\ storeOp = NoStoreCall

ChildLoopNext ==
    \/ \E upToBlockNumber \in ChildBlockNumbers, pageSize \in 1..MaxPageSize :
          GetFactoryChildAddresses(1, upToBlockNumber, pageSize)
    \/ GetFactoryChildAddressesYield
    \/ GetFactoryChildAddressesResume

\* the query's promise settles, and the caller keeps asking the generator
\* for the next page
ChildLoopSpec ==
    /\ ChildLoopInit /\ [][ChildLoopNext]_vars
    /\ WF_vars(GetFactoryChildAddressesYield)
    /\ WF_vars(GetFactoryChildAddressesResume)

\* C31: once getFactoryChildAddresses is called its page loop ends, for
\* every logs table and page size, also with matching logs in block 0 and
\* with pages of exactly pageSize rows; and it ends exactly with a page of
\* fewer than pageSize rows.
C31_PageLoopEnds ==
    /\ (storeOp.method = "getFactoryChildAddresses")
          ~> (storeOp.method = "getFactoryChildAddresses" /\ storeOp.pc = "done")
    /\ [][(storeOp.method = "getFactoryChildAddresses" /\ storeOp.pc # "done") =>
             /\ storeOp'.pc = "done" => Len(storeOp'.result) < storeOp.args[3]
             /\ storeOp'.pc = "query" => Len(storeOp'.result) = storeOp.args[3]
         ]_vars

\* C31 without termination: the loop ends exactly with a page of fewer than
\* pageSize rows
C31_EndsOnShortPage ==
    [][(storeOp.method = "getFactoryChildAddresses" /\ storeOp.pc # "done") =>
          /\ storeOp'.pc = "done" => Len(storeOp'.result) < storeOp.args[3]
          /\ storeOp'.pc = "query" => Len(storeOp'.result) = storeOp.args[3]
      ]_vars


(***************************************************************************)
(* The scheduler with a setup function whose completion may have been      *)
(* persisted by an earlier run, a setup function that may throw, the flush *)
(* timer, kill and an admin reload: no table access, no reorg.             *)
(***************************************************************************)
SetupInit ==
    /\ gateway = NewGateway
    /\ gwHist = NewGwHist
    /\ NewIndexingService
    /\ tableAccess = [k \in Keys \cup {"setup"} |-> Access({}, {})]
    /\ functionMetadata \in
          {[k \in Keys \cup {"setup"} |-> IF k \in Keys THEN zeroCheckpoint ELSE c] :
              c \in {undefinedCheckpoint, zeroCheckpoint}}
    /\ pe = [i \in 1..MaxPE |-> [pc |-> "none", gen |-> 0]]
    /\ resetPc = "pending"
    /\ NewSyncStore

SetupNext ==
    \/ GatewayNewCheckpoint(BlockCheckpoint(1))
    \/ \E i \in 1..MaxPE : ProcessEventsOnIdle(i)
    \/ RunExclusive
    \/ \E l \in loads : LoadIndexingFunctionTasks(l)
    \/ \E s \in DOMAIN workers : ExecuteLogEventTask(s)
    \/ \E s \in DOMAIN workers : ExecuteSetupTask(s)
    \/ \E s \in DOMAIN workers :
          workers[s].task.key \notin Keys /\ ExecuteTaskThrows(s, "NonRetryableError")
    \/ \E s \in DOMAIN workers : SetupTaskReturns(s)
    \/ \E f \in Flows : EnqueueLogEventTasks(f)
    \/ FlushInterval
    \/ FlushIntervalOnIdle
    \/ FlushIntervalProcessEvents
    \/ Kill
    \/ AdminReload
    \/ Reset
    \/ ResetOnIdle
    \/ ResetRebuild
    \/ ResetProcessEvents

SetupSpec == SetupInit /\ [][SetupNext]_vars


\* the tasks of the setup function k that are queued or in a worker
setupTasksOf(q, w, k) ==
    Cardinality({i \in DOMAIN q.pending : q.pending[i].key = k})
    + Cardinality({s \in DOMAIN w : w[s].task.key = k})

\* a step in which processEvents passes the isSetupStarted test
setupStartStep == ~isSetupStarted /\ isSetupStarted'

C32_WitnessPersisted ==
    /\ isSetupStarted
    /\ functionMetadata["setup"] # undefinedCheckpoint
    /\ setupTasksOf(queue, workers, "setup") = 0
    /\ hist.reloads > 0


\* the setup function k has a task that has not run to successful completion:
\* still queued, or in a worker whose attempt has not returned
setupNotRun(q, w, k) ==
    \/ \E i \in DOMAIN q.pending : q.pending[i].key = k
    \/ \E s \in DOMAIN w : w[s].task.key = k /\ w[s].outcome # "ok"

\* C33: a setup function is recorded as complete (isComplete), and its
\* sentinel row is written by flush, only once its setup tasks have run to
\* successful completion: never while a task of it is still queued, still
\* running, or has failed.
C33_CompleteOnlyAfterSetupRan ==
    \A k \in DOMAIN setupFunctionStates :
        (setupFunctionStates[k].isComplete \/ functionMetadata[k] # undefinedCheckpoint)
            => ~setupNotRun(queue, workers, k)

\* the part of C33 about the persisted row alone
C33_PersistedOnlyAfterSetupRan ==
    \A k \in DOMAIN setupFunctionStates :
        functionMetadata[k] # undefinedCheckpoint => ~setupNotRun(queue, workers, k)


\* C34: when reset or kill cancels the loading mutex, no caller that was
\* waiting for the lock (processEvents, handleReorg, the load after a task
\* in executeLogEventTask) ends with a rejected operation.
C34_CancelNeverRejects == hist.rejected = {}

\* C34 for the waiting processEvents alone
C34_ProcessEventsNeverRejects == "pe" \notin hist.rejected

\* C34 for the load after a task alone
C34_TaskLoadNeverRejects == "task" \notin hist.rejected


\* a step between two resets: the function states are not rebuilt
betweenResets == DOMAIN indexingFunctionStates' = DOMAIN indexingFunctionStates
                 /\ ~(resetPc = "flush" /\ resetPc' = "processEvents")

\* C35: between resets and while handleReorg has not been called, none of
\* tasksProcessedToCheckpoint, tasksLoadedFromCheckpoint and
\* tasksLoadedToCheckpoint of any function decreases, whatever checkpoints
\* were persisted and whatever the gateway's checkpoint is at the loads.
C35_CheckpointsNeverDecrease ==
    [][ (betweenResets /\ hist'.reorgs = 0) =>
          \A k \in DOMAIN indexingFunctionStates :
             LET old == indexingFunctionStates[k]
                 new == indexingFunctionStates'[k]
             IN  /\ isCheckpointGreaterThanOrEqualTo(new.tasksProcessedToCheckpoint,
                                                     old.tasksProcessedToCheckpoint)
                 /\ isCheckpointGreaterThanOrEqualTo(new.tasksLoadedFromCheckpoint,
                                                     old.tasksLoadedFromCheckpoint)
                 /\ isCheckpointGreaterThanOrEqualTo(new.tasksLoadedToCheckpoint,
                                                     old.tasksLoadedToCheckpoint)
      ]_vars

\* C35 for tasksProcessedToCheckpoint alone
C35_ProcessedNeverDecreases ==
    [][ (betweenResets /\ hist'.reorgs = 0) =>
          \A k \in DOMAIN indexingFunctionStates :
             isCheckpointGreaterThanOrEqualTo(
                indexingFunctionStates'[k].tasksProcessedToCheckpoint,
                indexingFunctionStates[k].tasksProcessedToCheckpoint)
      ]_vars


\* C36: in every reachable state the loadedTasks buffer of each function is
\* strictly increasing in checkpoint: no duplicates and no entry out of
\* order, also after handleReorg has clamped tasksLoadedToCheckpoint and a
\* later load has appended the events loaded again.
C36_LoadedTasksStrictlyIncreasing ==
    \A k \in DOMAIN indexingFunctionStates :
        LET tasks == indexingFunctionStates[k].loadedTasks
        IN  \A i \in 1..(Len(tasks) - 1) :
               isCheckpointGreaterThan(tasks[i + 1].checkpoint, tasks[i].checkpoint)

\* C36 while no handleReorg has reverted: the buffer is strictly increasing
C36_StrictlyIncreasingWithoutRevert ==
    hist.reverts = 0 => C36_LoadedTasksStrictlyIncreasing


(***************************************************************************)
(* The scheduler without reorg, failure and reload, under the event loop's *)
(* fairness: every continuation that is ready is run in the end.  The      *)
(* gateway's checkpoint may stop at any block.                             *)
(***************************************************************************)
LiveAwaited ==
    \/ \E i \in 1..MaxPE : ProcessEventsOnIdle(i)
    \/ RunExclusive
    \/ \E l \in loads : LoadIndexingFunctionTasks(l)
    \/ \E s \in DOMAIN workers : ExecuteLogEventTask(s)
    \/ Reset
    \/ ResetOnIdle
    \/ ResetRebuild
    \/ ResetProcessEvents

LiveNext ==
    \/ \E c \in SchedCheckpoints : GatewayNewCheckpoint(c)
    \/ \E f \in Flows : EnqueueLogEventTasks(f)
    \/ LiveAwaited

\* a flow has left runExclusive and its call of enqueueLogEventTasks is next:
\* the guard of EnqueueLogEventTasks, which always changes the flow's state
enqueueReady == ~HandoffPending /\ \E f \in Flows : flowPc(f) = "enqueue"

\* Weak fairness of the awaited continuations; the synchronous call of
\* enqueueLogEventTasks after runExclusive is not left pending forever (weak
\* fairness of EnqueueLogEventTasks, stated through its guard).
LiveSpec ==
    /\ Init /\ [][LiveNext]_vars
    /\ WF_vars(LiveAwaited)
    /\ []<>~enqueueReady

\* every buffer is empty, no task is queued or in flight, and every function
\* has loaded up to the gateway's checkpoint
caughtUp ==
    /\ queue.pending = << >>
    /\ DOMAIN workers = {}
    /\ \A k \in DOMAIN indexingFunctionStates :
          /\ indexingFunctionStates[k].loadedTasks = << >>
          /\ isCheckpointGreaterThanOrEqualTo(
                indexingFunctionStates[k].tasksLoadedToCheckpoint, gateway.checkpoint)

\* every event above the persisted progress of its function and up to the
\* gateway's checkpoint has been executed
allExecuted ==
    \A k \in Keys : \A e \in StoreEvents(k) :
        (/\ isCheckpointGreaterThan(e, functionMetadata[k])
         /\ isCheckpointGreaterThanOrEqualTo(gateway.checkpoint, e))
            => e \in hist.done[k]

\* the start-up reset has returned and processEvents has been invoked at the
\* gateway's checkpoint c
processEventsInvokedAt(c) == resetPc = "none" /\ gateway.checkpoint = c

\* C37: once the gateway's checkpoint is non-zero and stays where it is, with
\* no reorg, no reset and no failing task, after processEvents the scheduler
\* reaches a state with every buffer empty, nothing queued or in flight and
\* every function loaded up to the checkpoint, in which every matching event
\* up to the checkpoint has been executed.
C37_EventuallyAllExecuted ==
    \A c \in SchedCheckpoints :
        processEventsInvokedAt(c) ~> (gateway.checkpoint # c \/ (caughtUp /\ allExecuted))

\* C37 without "every matching event has been executed": the dispatch rules
\* do not deadlock
C37_EventuallyCaughtUp ==
    \A c \in SchedCheckpoints :
        processEventsInvokedAt(c) ~> (gateway.checkpoint # c \/ caughtUp)


\* the event e of k is counted as loaded but is in no buffer, queued or
\* running task and in no load of k in flight, and has not been executed
lostEvent(k, e) ==
    /\ resetPc = "none"
    /\ k \in DOMAIN indexingFunctionStates
    /\ isCheckpointGreaterThanOrEqualTo(indexingFunctionStates[k].tasksLoadedToCheckpoint, e)
    /\ isCheckpointGreaterThan(e, functionMetadata[k])
    /\ e \notin hist.done[k]
    /\ \A i \in DOMAIN indexingFunctionStates[k].loadedTasks :
          indexingFunctionStates[k].loadedTasks[i].checkpoint # e
    /\ \A i \in DOMAIN queue.pending :
          ~(queue.pending[i].key = k /\ queue.pending[i].checkpoint = e)
    /\ \A s \in DOMAIN workers :
          ~(workers[s].task.key = k /\ workers[s].task.checkpoint = e)
    /\ \A l \in loads : l.key # k

\* the same scheduler with the flush timer, which calls processEvents again
\* every two minutes
LiveTimerNext ==
    \/ LiveNext
    \/ FlushInterval
    \/ FlushIntervalOnIdle
    \/ FlushIntervalProcessEvents

LiveTimerSpec == Init /\ [][LiveTimerNext]_vars

\* the state C37's behaviour ends in is no artefact of a processEvents that
\* is never called again: an event that is lost stays lost, whatever the
\* timer, the gateway and the tasks do
C37_LostEventStaysLost ==
    [][\A k \in Keys : \A e \in StoreEvents(k) : lostEvent(k, e) => lostEvent(k, e)']_vars

\* some event is lost
C37_EventLost == \E k \in Keys : \E e \in StoreEvents(k) : lostEvent(k, e)

\* a step in which eventsProcessed is emitted with a new payload
emitStep == hist'.lastEmit # hist.lastEmit

\* a loaded task at or below c that has not completed: it is still in a
\* buffer, queued, or in a worker whose function has not returned
unfinishedUpTo(st, q, w, h, c) ==
    \/ \E k \in DOMAIN st : \E i \in DOMAIN st[k].loadedTasks :
          isCheckpointGreaterThanOrEqualTo(c, st[k].loadedTasks[i].checkpoint)
    \/ \E i \in DOMAIN q.pending :
          /\ q.pending[i].key \in Keys
          /\ isCheckpointGreaterThanOrEqualTo(c, q.pending[i].checkpoint)
    \/ \E s \in DOMAIN w :
          /\ w[s].task.key \in Keys
          /\ isCheckpointGreaterThanOrEqualTo(c, w[s].task.checkpoint)
          /\ w[s].task.checkpoint \notin h.done[w[s].task.key]

\* C38: whenever eventsProcessed{toCheckpoint} is emitted, every loaded task
\* with a checkpoint at or below toCheckpoint has completed: none is still
\* buffered, queued or executing.
C38_EmittedCheckpointCompleted ==
    [][ emitStep =>
          ~unfinishedUpTo(indexingFunctionStates', queue', workers', hist', hist'.lastEmit)
      ]_vars


\* the worker s leaves a failed attempt of a log task for the store's revert
revertStepOf(s) ==
    /\ s \in DOMAIN workers /\ s \in DOMAIN workers'
    /\ workers[s].task.key \in Keys
    /\ workers[s].pc = "exec" /\ workers'[s].pc = "revert"

\* C39: whenever a failed attempt reverts the store to its task's
\* checkpoint, no task of any function that has completed has a checkpoint
\* above it: the revert removes the writes of no completed task.
C39_RevertKeepsCompletedWrites ==
    [][ \A s \in DOMAIN workers :
          revertStepOf(s) =>
             \A k \in Keys : \A e \in hist.done[k] :
                ~isCheckpointGreaterThan(e, workers[s].task.checkpoint)
      ]_vars


(***************************************************************************)
(* The batch sizes of the loads, with a sync store that holds thousands of *)
(* logs per function: the loads of one runExclusive callback, and the      *)
(* dispatch pass after it with the tasks handed over run to completion.    *)
(* syncStore holds, for each key, the number of its logs in each block.    *)
(***************************************************************************)
MaxBatchPasses == 3

\* the numbers of logs function A has in the first and in the second block,
\* and the numbers function B has
BatchLogCounts == <<{0, 5000, MAX_BATCH_SIZE, MAX_BATCH_SIZE + 5000}, {0, 1}>>

BatchLogCountsOfB == <<{0, 5000}, {0, 1}>>

BatchStores ==
    {[k \in Keys |-> IF k = "A" THEN <<a1, a2>> ELSE <<b1, b2>>] :
        a1 \in BatchLogCounts[1], b1 \in BatchLogCountsOfB[1],
        a2 \in BatchLogCounts[2], b2 \in BatchLogCountsOfB[2]}

\* the gateway's checkpoint once block t is synced: above every log of it
BatchCheckpoint(t) == Cp(t, 1, t, 2 * MAX_BATCH_SIZE + 2)

\* the checkpoint of the j-th log of key k, in block order
BatchLog(store, k, j) ==
    IF j <= store[k][1] THEN Cp(1, 1, 1, 2 * j + (IF k = "A" THEN 0 ELSE 1))
    ELSE Cp(2, 1, 2, 2 * (j - store[k][1]) + (IF k = "A" THEN 0 ELSE 1))

\* the number of logs of key k in block t at or below the checkpoint c
\* (the logs of block t are BatchLog(store, k, j) in ascending logIndex)
logsOfBlockUpTo(store, k, t, c) ==
    LET first == BatchLog(store, k, IF t = 1 THEN 1 ELSE store[k][1] + 1)
        n == (c.logIndex - first.logIndex) \div 2 + 1
    IN  IF store[k][t] = 0 \/ isCheckpointGreaterThan(first, c) THEN 0
        ELSE IF c.blockTimestamp > t THEN store[k][t]
        ELSE IF n > store[k][t] THEN store[k][t] ELSE n

\* the number of logs of key k at or below the checkpoint c
logsUpTo(store, k, c) ==
    logsOfBlockUpTo(store, k, 1, c) + logsOfBlockUpTo(store, k, 2, c)

\* SyncStore.getLogEvents on this store: the logs in (fromCheckpoint,
\* toCheckpoint], ascending, limit + 1 of them fetched
getBatchEvents(store, k, fromCheckpoint, toCheckpoint, limit) ==
    LET lo == logsUpTo(store, k, fromCheckpoint)
        hi == logsUpTo(store, k, toCheckpoint)
        hasNextPage == hi - lo > limit
        n == IF hasNextPage THEN limit ELSE hi - lo
        events == [i \in 1..n |-> BatchLog(store, k, lo + i)]
    IN  [events |-> events,
         hasNextPage |-> hasNextPage,
         lastCheckpointInPage |-> IF hasNextPage THEN events[n] ELSE undefinedCheckpoint,
         lastCheckpoint |-> IF hi <= lo THEN undefinedCheckpoint
                            ELSE BatchLog(store, k, hi)]

BatchInit ==
    /\ gateway = NewGateway
    /\ gwHist = NewGwHist
    /\ tableAccess \in TableAccessFixtures
    /\ functionMetadata = [k \in Keys |-> zeroCheckpoint]
    /\ isPaused = FALSE
    /\ indexingFunctionStates = buildIndexingFunctionStates(tableAccess, functionMetadata)
    /\ queue = NewQueue(1)
    /\ workers = << >>
    /\ loadingMutex = NewMutex
    /\ loads = {}
    /\ reorg = [pc |-> "none", safeCheckpoint |-> zeroCheckpoint]
    /\ hist = NewHist
    /\ isSetupStarted = TRUE
    /\ setupFunctionStates = << >>
    /\ flushInterval = "idle"
    /\ pe = << >>
    /\ resetPc = "none"
    /\ syncStore \in BatchStores
    /\ storeOp = NoStoreCall

\* the gateway's checkpoint advances to block t
BatchNewCheckpoint(t) ==
    /\ loads = {}
    /\ isCheckpointGreaterThan(BatchCheckpoint(t), gateway.checkpoint)
    /\ gateway' = [gateway EXCEPT !.checkpoint = BatchCheckpoint(t)]
    /\ UNCHANGED <<gwHist, schedVars, storeVars>>

\* runExclusive's callback: getLoadKeys, and each load up to its await
BatchRunExclusive ==
    /\ loads = {}
    /\ ~isCheckpointEqual(gateway.checkpoint, zeroCheckpoint)
    /\ startLoads(indexingFunctionStates, gateway.checkpoint, queue.gen) # {}
    /\ loads' = startLoads(indexingFunctionStates, gateway.checkpoint, queue.gen)
    /\ loadingMutex' = [loadingMutex EXCEPT !.holder = <<"pe", 1>>]
    /\ UNCHANGED <<gateway, gwHist, tableAccess, functionMetadata, isPaused,
                   indexingFunctionStates, queue, workers, pe, reorg, resetPc, hist,
                   isSetupStarted, setupFunctionStates, flushInterval, storeVars>>

\* loadIndexingFunctionTasks after `await getEvents`
BatchLoadIndexingFunctionTasks(l) ==
    /\ l \in loads
    /\ indexingFunctionStates' =
          [indexingFunctionStates EXCEPT ![l.key] =
              loadResult(@, l, getBatchEvents(syncStore, l.key, l.fromCheckpoint,
                                              l.toCheckpoint, l.limit))]
    /\ loads' = loads \ {l}
    /\ loadingMutex' = IF loads' = {} THEN NewMutex ELSE loadingMutex
    /\ UNCHANGED <<gateway, gwHist, tableAccess, functionMetadata, isPaused,
                   queue, workers, pe, reorg, resetPc, hist,
                   isSetupStarted, setupFunctionStates, flushInterval, storeVars>>

\* the state of key k after a pass of enqueueLogEventTasks and after the
\* tasks it handed to the queue have completed (executeLogEventTask)
afterDispatch(st, k) ==
    LET res == enqueueKey(st, k)
        n == Len(res.dispatch)
    IN  IF n = 0 THEN st[k]
        ELSE [st[k] EXCEPT
                !.loadedTasks = res.remaining,
                !.tasksProcessedToCheckpoint =
                    checkpointMax(@, res.dispatch[n].checkpoint),
                !.tasksLoadedFromCheckpoint =
                    IF res.remaining # << >> THEN res.remaining[1].checkpoint
                    ELSE st[k].tasksLoadedToCheckpoint]

\* enqueueLogEventTasks after the callback, the queue running until idle
BatchEnqueueLogEventTasks ==
    /\ loads = {}
    /\ storeOp.n < MaxBatchPasses
    /\ \E k \in DOMAIN indexingFunctionStates :
          enqueueKey(indexingFunctionStates, k).dispatch # << >>
    /\ indexingFunctionStates' =
          [k \in DOMAIN indexingFunctionStates |-> afterDispatch(indexingFunctionStates, k)]
    /\ storeOp' = [storeOp EXCEPT !.n = @ + 1]
    /\ UNCHANGED <<gateway, gwHist, tableAccess, functionMetadata, isPaused,
                   queue, workers, loadingMutex, loads, pe, reorg, resetPc, hist,
                   isSetupStarted, setupFunctionStates, flushInterval, syncStore>>

BatchNext ==
    \/ \E t \in 1..Len(BatchLogCounts) : BatchNewCheckpoint(t)
    \/ BatchRunExclusive
    \/ \E l \in loads : BatchLoadIndexingFunctionTasks(l)
    \/ BatchEnqueueLogEventTasks

BatchSpec == BatchInit /\ [][BatchNext]_vars

\* the sum calculateTaskBatchSize subtracts for key: the buffered tasks of
\* the other keys that are fully loaded
sumOfFullyLoaded(st, cp, key) ==
    SumLoaded(st, {k \in DOMAIN st \ {key} : isIndexingFunctionFullLoaded(st, cp, k)})

\* the divisor of calculateTaskBatchSize for key
unfinishedCountOf(st, cp, key) ==
    Cardinality(DOMAIN st)
    - Cardinality({k \in DOMAIN st \ {key} : isIndexingFunctionFullLoaded(st, cp, k)})

\* C40 (as written): every limit a load passes to getLogEvents is an integer
\* >= 1, the divisor of calculateTaskBatchSize is >= 1 for every key, and the
\* sum of the buffered tasks of the other fully loaded keys stays below
\* MAX_BATCH_SIZE, in every reachable state.
C40_LimitAndSumBelowMax ==
    /\ \A l \in loads : l.limit \in Nat /\ l.limit >= 1
    /\ \A k \in DOMAIN indexingFunctionStates :
          /\ unfinishedCountOf(indexingFunctionStates, gateway.checkpoint, k) >= 1
          /\ sumOfFullyLoaded(indexingFunctionStates, gateway.checkpoint, k) < MAX_BATCH_SIZE

\* C40 (amended): every limit a load passes to getLogEvents is an integer
\* >= 1 and at most MAX_BATCH_SIZE, and the divisor of calculateTaskBatchSize
\* is >= 1 for every key, in every reachable state.
C40_LimitAtLeastOne ==
    /\ \A l \in loads : l.limit \in Nat /\ l.limit >= 1 /\ l.limit <= MAX_BATCH_SIZE
    /\ \A k \in DOMAIN indexingFunctionStates :
          unfinishedCountOf(indexingFunctionStates, gateway.checkpoint, k) >= 1

\* a load is in flight whose limit is what the buffered tasks of the other,
\* fully loaded key leave of MAX_BATCH_SIZE
C40_Witness ==
    \E l \in loads : \E k \in DOMAIN indexingFunctionStates \ {l.key} :
        /\ isIndexingFunctionFullLoaded(indexingFunctionStates, gateway.checkpoint, k)
        /\ Len(indexingFunctionStates[k].loadedTasks) >= 4999
        /\ l.limit = MAX_BATCH_SIZE - Len(indexingFunctionStates[k].loadedTasks)

====
